---- MODULE Spec2Model ----
(***************************************************************************)
(* Model of baudotrss' messager package.                                   *)
(*                                                                         *)
(* Part 1: the SMS feed (messager/twiliofeed.py).  Two threads share the   *)
(* feed object: the feed's own poll thread, which runs fetchitems once per *)
(* poll interval, and the thread that drives the Teletype, which takes     *)
(* items from inqueue, prints them and calls itemdone.  The message server *)
(* is the environment.                                                     *)
(*                                                                         *)
(* Part 2: the Teletype emulator (messager/dummyteletype.py).  Three kinds *)
(* of threads share a Dummyteletype: the thread that writes to it, the     *)
(* thread that reads the keyboard, and the threads of the flush timers.    *)
(* The Baudot codec (module baudot) is not part of the package.            *)
(*                                                                         *)
(* Part 3: the weather report (messager/nwsweatherreport.py).  One call of *)
(* getnwsforecast: the reply of the weather service is read as XML, parsed *)
(* by nwsxml.parse and given back as text.  The document is the input.     *)
(***************************************************************************)
EXTENDS Integers, Sequences, FiniteSets, TLC

\* ------------------------------------------------------------------ bounds
MaxSerial == 2      \* the server numbers its messages 0 .. MaxSerial
MaxOut    == 3      \* normal items the feed may queue in one run
MaxFault  == 1      \* faults in one run: requests that fail with IOError,
                    \* replies outside the protocol, messages marked unprinted
                    \* again on the server
MaxWrites == 2      \* calls of Dummyteletype.write in one run
MaxReads  == 1      \* calls of Dummyteletype.read in one run
MaxKeys   == 3      \* keys typed in one run of the keyboard alone

Serials == 0 .. MaxSerial

\* ----------------------------------------------------------- Python values
NoSerial  == "None"          \* getattr(item, "serial", None) of an item without one
Absent    == "<absent>"      \* a key that is not in the fields dictionary
NoItem    == [serial |-> NoSerial, err |-> FALSE, stamp |-> 0]
NonNumeric == "x"            \* a serial the server should never send

VARIABLES
    server,      \* server side: serial -> "none" | "unprinted" | "printed"
    lastserial,  \* self.lastserial
    inqueue,     \* self.inqueue, the feed's output queue
    donequeue,   \* self.donequeue
    printing,    \* the item the Teletype thread is printing, or NoItem
    pc,          \* where the poll thread is inside fetchitems
    item,        \* markitemsdone's local variable item
    produced,    \* did the most recent finished poll cycle queue anything
    cursor0,     \* history: lastserial when the current cycle began
    prev,        \* history: how the previous cycle ended, and whether a cycle
                 \* began idle since the last fetch request
    cyclelog,    \* history: what the current poll cycle did so far
    fetched,     \* history: serials of the normal messages the server returned
    queued,      \* history: serials of the normal items put on inqueue
    doneserials, \* history: the serials itemdone has queued, in call order
    requeued,    \* history: stamps of the items markitemsdone has put back
    acked,       \* history: stamps of the items reported "printed" successfully
    revived,     \* history: serials the server marked unprinted again
    lastput,     \* history: the highest serial of the normal items queued
                 \* since the cursor was last reset, -1 when there is none
    nfault       \* history: requests failed and odd replies so far

\* the Teletype emulator
VARIABLES
    inshift,     \* self.inshift: LTRS, FIGS or Null
    outshift,    \* self.outshift
    outline,     \* self.outline, the characters of the line not yet delivered
    flushlock,   \* self.flushlock: "free" or the thread that holds it
    timers,      \* the Timer objects write has started, oldest first; the
                 \* last one is self.flushtimer
    age,         \* time since self.flushtimer was started, up to FlushDelay
    wpc,         \* where the writing thread is inside write
    ws,          \* write: the bytes of s not yet handled
    wch,         \* write: the local variable ch
    rpc,         \* where the keyboard thread is inside read
    rtext,       \* read: the characters of intexta not yet handled
    intext,      \* read: what getch has returned to the call of read
    rloc,        \* read: the local variables bb and shift
    baudotread,  \* read: the local variable baudotread
    alive,       \* FALSE once os._exit was called
    typed,       \* history: the characters getch has returned
    outs,        \* history: what the calls of read have returned
    nechoed,     \* history: how many results of read were given to write
    nwrites,     \* history: calls of write so far
    decoded,     \* history: the characters write has decoded
    delivered,   \* history: the lines given to the logger
    instep       \* history: every result of read was written before the
                 \* next read began, and no read ran during a write

\* the weather report
VARIABLES
    tree,        \* the reply of the weather service, as far as it was looked at
    fpc,         \* where getnwsforecast is
    err,         \* nwsxml.err
    creationtime,\* nwsxml.creationtime
    timelayouts, \* the local variable timelayouts of nwsxml.parse
    perioditems, \* nwsxml.perioditems
    text,        \* what getnwsforecast returns
    exc          \* the exception that has left getnwsforecast, if any

nws == <<tree, fpc, err, creationtime, timelayouts, perioditems, text, exc>>

\* the body of an SMS
VARIABLES
    msgbody,     \* the body processmsg has picked, as it gives it to cleanhtml
    cleaned,     \* what cleanhtml has returned for it
    cpc          \* where processmsg is with the body

sms == <<msgbody, cleaned, cpc>>

tty == <<inshift, outshift, outline, flushlock, timers, age, wpc, ws, wch, rpc,
         rtext, intext, rloc, baudotread, alive, typed, outs, nechoed, nwrites, decoded,
         delivered, instep>>

feed == <<server, lastserial, inqueue, donequeue, printing, pc, item, produced,
          cursor0, prev, cyclelog, fetched, queued, doneserials, requeued, acked,
          revived, lastput, nfault>>

vars == <<server, lastserial, inqueue, donequeue, printing, pc, item, produced,
          cursor0, prev, cyclelog, fetched, queued, doneserials, requeued, acked,
          revived, lastput, nfault, tty, nws, sms>>

hist == <<fetched, queued, doneserials, requeued, acked, revived, lastput>>

Max(a, b) == IF a >= b THEN a ELSE b

MaxOf(S) == CHOOSE n \in S : \A k \in S : k <= n

\* the faults of the run so far
Faults == nfault + Cardinality(revived)

\* ------------------------------------------------------------ the messages
\* One <message> element of a reply, as the dictionary handlereply builds of
\* it: a field that is missing or empty is Absent; nostring says that some
\* child tag has no string (tag.string is None), which makes line 277 raise
\* AttributeError; rcvtime is "ok", "bad" (not in the expected format) or Absent.
NoException == "none"

SerialText(n) == ToString(n)        \* the server writes a serial in decimal

IsNumeric(s) == \E n \in 0 .. MaxSerial + 1 : SerialText(n) = s

\* int(fields["serial"]); ValueError when it is not a number (IsNumeric)
int(s) == CHOOSE n \in 0 .. MaxSerial + 1 : SerialText(n) = s

Good(n) == [serial |-> SerialText(n), errormsg |-> "0", rcvtime |-> "ok",
            nostring |-> FALSE]

ErrorItem == [serial |-> NoSerial, err |-> TRUE, stamp |-> 0]

\* Feed.logerror: reports the error as an error item of the feed
logerror == <<ErrorItem>>

\* the outcome of a call: the items it put on inqueue and what it raised
Outcome(put, raised) == [put |-> put, raised |-> raised]

\* processmsg that builds the item and does not queue it
processmsg_noput(fields) ==
    IF fields.rcvtime = Absent
    THEN Outcome(<<>>, "TypeError")
    ELSE Outcome(<<>>, NoException)

processmsg(fields) ==
    IF fields.rcvtime = Absent
    THEN Outcome(<<>>, "TypeError")      \* strptime(None, ...), not caught
    ELSE Outcome(<<[serial |-> fields.serial, err |-> FALSE, stamp |-> 0]>>,
                 NoException)

handlemsg(fields) ==
    LET errormsg == IF fields.errormsg = Absent THEN "1" ELSE fields.errormsg
    IN  IF errormsg # "0"
        THEN Outcome(logerror, NoException)
        ELSE processmsg(fields)

\* an except clause that steps over the reply it could not read
formaterror_skip(newserial, put) ==
    [newserial |-> lastserial + 1, put |-> put \o logerror, raised |-> NoException]

\* the except clause of handlereply: one error item, newserial as it stands
formaterror(newserial, put) ==
    LET r == handlemsg([serial |-> Absent, errormsg |-> "1", rcvtime |-> Absent,
                        nostring |-> FALSE])
    IN  [newserial |-> newserial, put |-> put \o r.put, raised |-> r.raised]

RECURSIVE handlemessages(_, _, _)
handlemessages(messagetags, newserial, put) ==
    IF messagetags = <<>>
    THEN [newserial |-> newserial, put |-> put, raised |-> NoException]
    ELSE LET fields == Head(messagetags)
         IN  IF fields.nostring                       \* AttributeError, caught
             THEN formaterror(newserial, put)
             ELSE IF fields.serial = Absent           \* EnvironmentError, caught
             THEN formaterror(newserial, put)
             ELSE IF ~IsNumeric(fields.serial)        \* ValueError, not caught
             THEN [newserial |-> newserial, put |-> put, raised |-> "ValueError"]
             ELSE LET ns == Max(newserial, int(fields.serial))
                      r  == handlemsg(fields)
                  IN  IF r.raised # NoException
                      THEN [newserial |-> ns, put |-> put \o r.put,
                            raised |-> r.raised]
                      ELSE handlemessages(Tail(messagetags), ns, put \o r.put)

\* handlereply(replyxml): the highest serial seen (-1 when none), the items
\* queued, and the exception that escapes, if one does
handlereply(replyxml) == handlemessages(replyxml, -1, <<>>)

\* Is a message one the protocol allows: all fields readable, a numeric serial
\* and a receive time.  (A message with errormsg other than "0" is the
\* server's own error report, not a malformed one.)
WellFormed(m) ==
    /\ ~m.nostring
    /\ m.serial # Absent
    /\ IsNumeric(m.serial)
    /\ m.rcvtime # Absent

Malformed(replyxml) == \E i \in DOMAIN replyxml : ~WellFormed(replyxml[i])

\* the serials of the normal messages of a reply (well formed, errormsg "0")
IsNormal(m) == WellFormed(m) /\ m.errormsg = "0"

NormalSerials(replyxml) ==
    LET sel == SelectSeq(replyxml, IsNormal)
    IN  [i \in 1 .. Len(sel) |-> sel[i].serial]

\* ------------------------------------------------------------- the server
\* getnext: the first unprinted message from serial start on, or none
Unprinted(start) == {n \in Serials : n >= start /\ server[n] = "unprinted"}

ProtocolReply(start) ==
    IF Unprinted(start) = {}
    THEN <<>>
    ELSE <<Good(CHOOSE n \in Unprinted(start) : \A k \in Unprinted(start) : n <= k)>>

\* replies outside the protocol
OddReplies ==
    {   <<[Good(1) EXCEPT !.serial = Absent]>>,
        <<[Good(1) EXCEPT !.serial = NonNumeric]>>,
        <<[Good(1) EXCEPT !.nostring = TRUE]>>,
        <<[Good(1) EXCEPT !.rcvtime = Absent]>>,
        <<[Good(1) EXCEPT !.errormsg = "1"]>>,
        <<[Good(1) EXCEPT !.errormsg = Absent]>>,
        <<Good(1), [Good(2) EXCEPT !.serial = Absent]>>,
        <<Good(1), Good(2)>>
    }

\* doservercmd leaves out of the request a v1 that is false: the number 0,
\* the empty string
GetnextRequest(v1) == [cmd |-> "getnext", hasv1 |-> v1 # 0, v1 |-> v1]

PrintedRequest(serial) == [cmd |-> "printed", hasv1 |-> serial # "", v1 |-> serial]

\* the serial a getnext request starts from, as the server reads the request
StartOf(req) == IF req.hasv1 THEN req.v1 ELSE 0

\* the server marks the message "printed"
MarkPrinted(serial) ==
    IF IsNumeric(serial) /\ int(serial) \in Serials
       /\ server[int(serial)] = "unprinted"
    THEN [server EXCEPT ![int(serial)] = "printed"]
    ELSE server

\* Python's None where a code-point or a shift is expected
Null == -1

\* ------------------------------------------------------------------- Init
Init ==
    /\ server = [n \in Serials |-> "none"]
    /\ lastserial = -1
    /\ inqueue = <<>>
    /\ donequeue = <<>>
    /\ printing = NoItem
    /\ pc = "sleep"
    /\ item = NoItem
    /\ produced = FALSE
    /\ cursor0 = -1
    /\ prev = [bad |-> FALSE, ioerr |-> FALSE, owed |-> FALSE, cursor |-> -1,
               start |-> -1]
    /\ cyclelog = <<>>
    /\ fetched = <<>>
    /\ queued = <<>>
    /\ doneserials = <<>>
    /\ requeued = {}
    /\ acked = {}
    /\ revived = {}
    /\ lastput = -1
    /\ nfault = 0
    /\ inshift = Null
    /\ outshift = Null
    /\ outline = <<>>
    /\ flushlock = "free"
    /\ timers = <<>>
    /\ age = 0
    /\ wpc = "idle"
    /\ ws = <<>>
    /\ wch = ""
    /\ rpc = "idle"
    /\ rtext = <<>>
    /\ intext = <<>>
    /\ rloc = [bb |-> Null, shift |-> Null]
    /\ baudotread = <<>>
    /\ alive = TRUE
    /\ typed = <<>>
    /\ outs = <<>>
    /\ nechoed = 0
    /\ nwrites = 0
    /\ decoded = <<>>
    /\ delivered = <<>>
    /\ instep = TRUE
    /\ tree = [kind |-> "", header |-> <<>>, layouts |-> <<>>, forecasts |-> <<>>]
    /\ fpc = "idle"
    /\ err = ""
    /\ creationtime = [exc |-> "None", dt |-> 0, aware |-> FALSE]
    /\ timelayouts = <<>>
    /\ perioditems = <<>>
    /\ text = [kind |-> "", periods |-> <<>>]
    /\ exc = NoException
    /\ msgbody = <<>>
    /\ cleaned = <<>>
    /\ cpc = "idle"

\* ------------------------------------------------- the Teletype's thread
\* itemdone that queues every item, with or without a serial
itemdone_nocheck(it) ==
    /\ donequeue' = Append(donequeue, [it EXCEPT !.stamp = Len(doneserials) + 1])
    /\ doneserials' = Append(doneserials, it.serial)
    /\ UNCHANGED <<server, cyclelog, acked, requeued>>

\* itemdone that sends the "printed" command itself
itemdone_direct(it) ==
    /\ IF it.serial # NoSerial
       THEN /\ server' = MarkPrinted(it.serial)
            /\ cyclelog' = Append(cyclelog,
                   [cmd |-> "printed", req |-> PrintedRequest(it.serial),
                    ok |-> TRUE, stamp |-> 0, thread |-> "teletype", nput |-> 0])
       ELSE UNCHANGED <<server, cyclelog>>
    /\ UNCHANGED <<donequeue, doneserials, acked, requeued>>

\* itemdone(item): called when the item has been printed
itemdone(it) ==
    LET serial == it.serial
    IN  /\ IF serial # NoSerial
           THEN /\ donequeue' = Append(donequeue,
                                   [it EXCEPT !.stamp = Len(doneserials) + 1])
                /\ doneserials' = Append(doneserials, serial)
           ELSE UNCHANGED <<donequeue, doneserials>>
        /\ UNCHANGED <<server, cyclelog, acked, requeued>>

\* the consumer takes the next item of the feed to print it
getitem ==
    /\ printing = NoItem
    /\ inqueue # <<>>
    /\ printing' = Head(inqueue)
    /\ inqueue' = Tail(inqueue)
    /\ UNCHANGED <<server, lastserial, donequeue, pc, item, produced, cursor0,
                   prev, cyclelog, hist, nfault>>

\* the item is printed: the consumer tells the feed
printed ==
    /\ printing # NoItem
    /\ itemdone(printing)
    /\ printing' = NoItem
    /\ UNCHANGED <<lastserial, inqueue, pc, item, produced, cursor0, prev,
                   fetched, queued, revived, lastput, nfault>>

\* ---------------------------------------------------- the poll thread
\* Feed.isfeedidle: the last poll cycle brought nothing and nothing of the
\* feed is waiting to be printed or being printed
isfeedidle == ~produced /\ inqueue = <<>> /\ printing = NoItem

\* did the cycle whose log this is queue anything
Produced(log) == \E i \in DOMAIN log : log[i].nput > 0

\* fetchitems that goes to the fetch without markitemsdone
fetchitems_begin_nodrain ==
    /\ pc = "sleep"
    /\ pc' = "isfeedidle"
    /\ item' = NoItem
    /\ cursor0' = lastserial
    /\ prev' = [bad |-> FALSE, ioerr |-> FALSE, owed |-> FALSE,
                cursor |-> lastserial, start |-> cursor0]
    /\ cyclelog' = <<>>
    /\ UNCHANGED <<server, lastserial, inqueue, donequeue, printing, produced,
                   hist, nfault>>

\* the poll loop calls fetchitems
fetchitems_begin ==
    /\ pc = "sleep"
    /\ pc' = "get"
    /\ item' = NoItem
    /\ cursor0' = lastserial
    /\ prev' = [bad |-> \E i \in DOMAIN cyclelog :
                            cyclelog[i].cmd = "getnext" /\ cyclelog[i].malformed,
                ioerr |-> \E i \in DOMAIN cyclelog :
                            cyclelog[i].cmd = "getnext" /\ ~cyclelog[i].ok,
                owed |-> \/ isfeedidle
                         \/ /\ prev.owed
                            /\ \A i \in DOMAIN cyclelog : cyclelog[i].cmd # "getnext",
                cursor |-> lastserial, start |-> cursor0]
    /\ cyclelog' = <<>>
    /\ UNCHANGED <<server, lastserial, inqueue, donequeue, printing, produced,
                   hist, nfault>>

\* markitemsdone that takes the newest item of the queue first
markitemsdone_get_newest ==
    /\ pc = "get"
    /\ IF donequeue = <<>>
       THEN /\ cyclelog' = Append(cyclelog,
                   [cmd |-> "markitemsdone", ok |-> TRUE, left |-> Len(donequeue),
                    nput |-> 0])
            /\ pc' = "isfeedidle"
            /\ UNCHANGED <<item, donequeue>>
       ELSE /\ item' = donequeue[Len(donequeue)]
            /\ donequeue' = SubSeq(donequeue, 1, Len(donequeue) - 1)
            /\ pc' = "send"
            /\ UNCHANGED cyclelog
    /\ UNCHANGED <<server, lastserial, inqueue, printing, produced, cursor0,
                   prev, hist, nfault>>

\* markitemsdone, line 365: get_nowait; Queue.Empty returns True
markitemsdone_get ==
    /\ pc = "get"
    /\ IF donequeue = <<>>
       THEN /\ cyclelog' = Append(cyclelog,
                   [cmd |-> "markitemsdone", ok |-> TRUE, left |-> Len(donequeue),
                    nput |-> 0])
            /\ pc' = "isfeedidle"
            /\ UNCHANGED <<item, donequeue>>
       ELSE /\ item' = Head(donequeue)
            /\ donequeue' = Tail(donequeue)
            /\ pc' = "send"
            /\ UNCHANGED cyclelog
    /\ UNCHANGED <<server, lastserial, inqueue, printing, produced, cursor0,
                   prev, hist, nfault>>

PrintedEvent(ok) ==
    [cmd |-> "printed", req |-> PrintedRequest(item.serial), ok |-> ok,
     stamp |-> item.stamp, thread |-> "poll", nput |-> IF ok THEN 0 ELSE 1]

\* fetchitems that goes on to the fetch when markitemsdone returns False
markitemsdone_send_goon(ok) ==
    /\ pc = "send"
    /\ IF ok
       THEN /\ server' = MarkPrinted(item.serial)
            /\ acked' = acked \cup {item.stamp}
            /\ cyclelog' = Append(cyclelog, PrintedEvent(TRUE))
            /\ pc' = "get"
            /\ UNCHANGED <<inqueue, donequeue, produced, nfault, requeued>>
       ELSE /\ Faults < MaxFault
            /\ nfault' = nfault + 1
            /\ inqueue' = inqueue \o logerror
            /\ donequeue' = Append(donequeue, item)
            /\ requeued' = requeued \cup {item.stamp}
            /\ cyclelog' = cyclelog \o
                   << PrintedEvent(FALSE),
                      [cmd |-> "markitemsdone", ok |-> FALSE,
                       left |-> Len(donequeue) + 1, nput |-> 0] >>
            /\ produced' = TRUE
            /\ pc' = "isfeedidle"
            /\ UNCHANGED <<server, acked>>
    /\ UNCHANGED <<lastserial, printing, item, cursor0, prev, fetched, queued,
                   doneserials, revived, lastput>>

\* markitemsdone that forgets the item whose send failed
markitemsdone_send_drop(ok) ==
    /\ pc = "send"
    /\ IF ok
       THEN /\ server' = MarkPrinted(item.serial)
            /\ acked' = acked \cup {item.stamp}
            /\ cyclelog' = Append(cyclelog, PrintedEvent(TRUE))
            /\ pc' = "get"
            /\ UNCHANGED <<inqueue, donequeue, produced, nfault, requeued>>
       ELSE /\ Faults < MaxFault
            /\ nfault' = nfault + 1
            /\ inqueue' = inqueue \o logerror
            /\ cyclelog' = cyclelog \o
                   << PrintedEvent(FALSE),
                      [cmd |-> "markitemsdone", ok |-> FALSE,
                       left |-> Len(donequeue), nput |-> 0] >>
            /\ produced' = TRUE
            /\ pc' = "sleep"
            /\ UNCHANGED <<server, acked, donequeue, requeued>>
    /\ UNCHANGED <<lastserial, printing, item, cursor0, prev, fetched, queued,
                   doneserials, revived, lastput>>

\* markitemsdone, lines 366-368 and 371-375: send "printed" for the item
markitemsdone_send(ok) ==
    /\ pc = "send"
    /\ IF ok
       THEN /\ server' = MarkPrinted(item.serial)
            /\ acked' = acked \cup {item.stamp}
            /\ cyclelog' = Append(cyclelog, PrintedEvent(TRUE))
            /\ pc' = "get"
            /\ UNCHANGED <<inqueue, donequeue, produced, nfault, requeued>>
       ELSE /\ Faults < MaxFault
            /\ nfault' = nfault + 1
            /\ inqueue' = inqueue \o logerror
            /\ donequeue' = Append(donequeue, item)
            /\ requeued' = requeued \cup {item.stamp}
            /\ cyclelog' = cyclelog \o
                   << PrintedEvent(FALSE),
                      [cmd |-> "markitemsdone", ok |-> FALSE,
                       left |-> Len(donequeue) + 1, nput |-> 0] >>
            /\ produced' = TRUE
            /\ pc' = "sleep"
            /\ UNCHANGED <<server, acked>>
    /\ UNCHANGED <<lastserial, printing, item, cursor0, prev, fetched, queued,
                   doneserials, revived, lastput>>

\* fetchitems that keeps the cursor when the feed is idle
fetchitems_isfeedidle_noreset ==
    /\ pc = "isfeedidle"
    /\ cyclelog' = Append(cyclelog,
           [cmd |-> "isfeedidle", idle |-> isfeedidle,
            waiting |-> Len(inqueue) + Len(donequeue)
                        + (IF printing = NoItem THEN 0 ELSE 1),
            nput |-> 0])
    /\ pc' = "getnext"
    /\ UNCHANGED <<server, lastserial, inqueue, donequeue, printing, item,
                   produced, cursor0, prev, hist, nfault>>

\* fetchitems, lines 242-243
fetchitems_isfeedidle ==
    /\ pc = "isfeedidle"
    /\ lastserial' = IF isfeedidle THEN -1 ELSE lastserial
    /\ cyclelog' = Append(cyclelog,
           [cmd |-> "isfeedidle", idle |-> isfeedidle,
            waiting |-> Len(inqueue) + Len(donequeue)
                        + (IF printing = NoItem THEN 0 ELSE 1),
            nput |-> 0])
    /\ lastput' = IF isfeedidle THEN -1 ELSE lastput
    /\ pc' = "getnext"
    /\ UNCHANGED <<server, inqueue, donequeue, printing, item, produced, cursor0,
                   prev, fetched, queued, doneserials, requeued, acked, revived,
                   nfault>>

GetnextEvent(ok, replyxml, r, after) ==
    [cmd |-> "getnext", req |-> GetnextRequest(lastserial + 1), ok |-> ok,
     thread |-> "poll", before |-> lastserial, after |-> after,
     malformed |-> ok /\ Malformed(replyxml),
     firstbad |-> ok /\ replyxml # <<>> /\ ~WellFormed(replyxml[1]),
     raised |-> r.raised, nput |-> Len(r.put),
     nerr |-> Cardinality({i \in DOMAIN r.put : r.put[i].err})]

\* fetchitems without the except clause for IOError: the error leaves
\* fetchitems
fetchitems_ioerror_raise ==
    /\ pc = "getnext"
    /\ Faults < MaxFault
    /\ nfault' = nfault + 1
    /\ cyclelog' = Append(cyclelog,
           GetnextEvent(FALSE, <<>>, Outcome(<<>>, "IOError"), lastserial))
    /\ produced' = Produced(cyclelog)
    /\ pc' = "raised"
    /\ UNCHANGED <<server, lastserial, inqueue, donequeue, printing, item,
                   cursor0, prev, hist>>

\* fetchitems, lines 247-253, when the request fails with IOError (line 258)
fetchitems_ioerror ==
    /\ pc = "getnext"
    /\ Faults < MaxFault
    /\ nfault' = nfault + 1
    /\ inqueue' = inqueue \o logerror
    /\ cyclelog' = Append(cyclelog,
           GetnextEvent(FALSE, <<>>, Outcome(logerror, NoException), lastserial))
    /\ produced' = TRUE
    /\ pc' = "sleep"
    /\ UNCHANGED <<server, lastserial, donequeue, printing, item, cursor0, prev,
                   hist>>

\* a fetch loop that goes on after every reply that holds a message
fetchitems_reply_anyserial(replyxml) ==
    LET r      == handlereply(replyxml)
        got    == r.raised = NoException /\ r.newserial >= 0
        after  == IF got THEN Max(r.newserial, lastserial) ELSE lastserial
        normal == SelectSeq(r.put, LAMBDA it : ~it.err)
        new    == [i \in 1 .. Len(normal) |-> normal[i].serial]
        log    == Append(cyclelog, GetnextEvent(TRUE, replyxml, r, after))
    IN  /\ pc = "getnext"
        /\ Len(queued) + Len(new) <= MaxOut
        /\ inqueue' = inqueue \o r.put
        /\ lastserial' = after
        /\ cyclelog' = log
        /\ fetched' = fetched \o NormalSerials(replyxml)
        /\ queued' = queued \o new
        /\ lastput' = MaxOf({int(new[i]) : i \in DOMAIN new} \cup {lastput})
        /\ IF r.raised # NoException
           THEN pc' = "raised" /\ produced' = Produced(log)
           ELSE IF got
           THEN pc' = "getnext" /\ UNCHANGED produced
           ELSE pc' = "sleep" /\ produced' = Produced(log)
        /\ UNCHANGED <<server, donequeue, printing, item, cursor0, prev,
                       doneserials, requeued, acked, revived>>

\* fetchitems, lines 247-253: one "getnext" request and its reply
fetchitems_reply(replyxml) ==
    LET r      == handlereply(replyxml)
        got    == r.raised = NoException /\ r.newserial # 0
                  /\ r.newserial > lastserial
        after  == IF got THEN r.newserial ELSE lastserial
        normal == SelectSeq(r.put, LAMBDA it : ~it.err)
        new    == [i \in 1 .. Len(normal) |-> normal[i].serial]
        log    == Append(cyclelog, GetnextEvent(TRUE, replyxml, r, after))
    IN  /\ pc = "getnext"
        /\ Len(queued) + Len(new) <= MaxOut
        /\ inqueue' = inqueue \o r.put
        /\ lastserial' = after
        /\ cyclelog' = log
        /\ fetched' = fetched \o NormalSerials(replyxml)
        /\ queued' = queued \o new
        /\ lastput' = MaxOf({int(new[i]) : i \in DOMAIN new} \cup {lastput})
        /\ IF r.raised # NoException
           THEN pc' = "raised" /\ produced' = Produced(log)
           ELSE IF got
           THEN pc' = "getnext" /\ UNCHANGED produced
           ELSE pc' = "sleep" /\ produced' = Produced(log)
        /\ UNCHANGED <<server, donequeue, printing, item, cursor0, prev,
                       doneserials, requeued, acked, revived>>

fetchitems_getnext ==
    \/ fetchitems_reply(ProtocolReply(StartOf(GetnextRequest(lastserial + 1))))
       /\ UNCHANGED nfault
    \/ /\ Faults < MaxFault
       /\ nfault' = nfault + 1
       /\ \E replyxml \in OddReplies : fetchitems_reply(replyxml)

\* ------------------------------------------------------- the environment
\* a new SMS reaches the server, which gives it the next serial; the first
\* serial is 0 or 1
Arrive ==
    /\ \E n \in Serials :
          /\ \A k \in Serials : k >= n => server[k] = "none"
          /\ \/ n <= 1 /\ \A k \in Serials : server[k] = "none"
             \/ n > 0 /\ server[n - 1] # "none"
          /\ server' = [server EXCEPT ![n] = "unprinted"]
    /\ UNCHANGED <<lastserial, inqueue, donequeue, printing, pc, item, produced,
                   cursor0, prev, cyclelog, hist, nfault>>

\* a printed message is marked unprinted on the server, to be printed again
Revive ==
    /\ Faults < MaxFault
    /\ \E n \in Serials :
          /\ server[n] = "printed"
          /\ server' = [server EXCEPT ![n] = "unprinted"]
          /\ revived' = revived \cup {n}
    /\ UNCHANGED <<lastserial, inqueue, donequeue, printing, pc, item, produced,
                   cursor0, prev, cyclelog, fetched, queued, doneserials,
                   requeued, acked, lastput, nfault>>

Next ==
    \/ getitem /\ UNCHANGED <<tty, nws, sms>>
    \/ printed /\ UNCHANGED <<tty, nws, sms>>
    \/ fetchitems_begin /\ UNCHANGED <<tty, nws, sms>>
    \/ markitemsdone_get /\ UNCHANGED <<tty, nws, sms>>
    \/ \E ok \in BOOLEAN : markitemsdone_send(ok) /\ UNCHANGED <<tty, nws, sms>>
    \/ fetchitems_isfeedidle /\ UNCHANGED <<tty, nws, sms>>
    \/ fetchitems_ioerror /\ UNCHANGED <<tty, nws, sms>>
    \/ fetchitems_getnext /\ UNCHANGED <<tty, nws, sms>>
    \/ Arrive /\ UNCHANGED <<tty, nws, sms>>
    \/ Revive /\ UNCHANGED <<tty, nws, sms>>

Spec == Init /\ [][Next]_vars

\* ======================================================================
\* The claims about the SMS feed
\* ======================================================================
IsCmd(i, cmd) == cyclelog[i].cmd = cmd

CycleOver == pc \in {"sleep", "raised"}

\* C1: in every poll cycle the drain of the pending acknowledgements
\* (markitemsdone) is attempted, and has returned, before any "getnext"
\* request is sent; no cycle sends a fetch request before its drain.
C1_DrainBeforeFetch ==
    \A i \in DOMAIN cyclelog :
        IsCmd(i, "getnext") => \E j \in 1 .. i - 1 : IsCmd(j, "markitemsdone")

\* a cycle whose drain sent a "printed" command and which then fetched
C1_Witness ==
    \E i, j \in DOMAIN cyclelog :
        i < j /\ IsCmd(i, "printed") /\ IsCmd(j, "getnext")

\* C3, as stated: a cycle whose drain reported that it did not complete
\* still sends a fetch request.
C3_FetchDespiteBacklog ==
    (CycleOver /\ \E i \in DOMAIN cyclelog :
                      IsCmd(i, "markitemsdone") /\ ~cyclelog[i].ok)
    => \E j \in DOMAIN cyclelog : IsCmd(j, "getnext")

\* C3, amended: when markitemsdone reports that it did not complete,
\* fetchitems returns at once; that cycle sends no "getnext" request and
\* does not touch the cursor.
C3_NoFetchAfterIncompleteDrain ==
    \A i \in DOMAIN cyclelog :
        (IsCmd(i, "markitemsdone") /\ ~cyclelog[i].ok)
        => /\ i = Len(cyclelog)
           /\ pc = "sleep"
           /\ lastserial = cursor0
           /\ \A j \in DOMAIN cyclelog : ~IsCmd(j, "getnext")

\* a finished cycle whose drain failed with items left in the queue
C3_Witness ==
    /\ pc = "sleep"
    /\ cyclelog # <<>>
    /\ IsCmd(Len(cyclelog), "markitemsdone")
    /\ ~cyclelog[Len(cyclelog)].ok
    /\ donequeue # <<>>

\* the stamps of the items waiting for their "printed" command: those in
\* donequeue and the one markitemsdone holds
PendingStamps ==
    {donequeue[i].stamp : i \in DOMAIN donequeue}
        \cup (IF pc = "send" THEN {item.stamp} ELSE {})

\* C5: markitemsdone sends the pending items one after another and stops at
\* the first failure: a failed send is the last request of its cycle, and
\* markitemsdone returns False with the failed item and the items not yet
\* sent in the queue; it returns True exactly when it found the queue empty.
\* No item leaves the queue without a successful send: the items pending are
\* exactly those itemdone queued less those sent successfully.
C5_DrainStopsAtFailure ==
    /\ \A i \in DOMAIN cyclelog :
          IsCmd(i, "markitemsdone") => (cyclelog[i].ok <=> cyclelog[i].left = 0)
    /\ \A i \in DOMAIN cyclelog :
          (IsCmd(i, "printed") /\ ~cyclelog[i].ok)
          => /\ i + 1 = Len(cyclelog)
             /\ IsCmd(i + 1, "markitemsdone")
             /\ ~cyclelog[i + 1].ok
             /\ cyclelog[i].stamp \in PendingStamps
    /\ PendingStamps = (1 .. Len(doneserials)) \ acked
    /\ Cardinality({donequeue[i].stamp : i \in DOMAIN donequeue}) = Len(donequeue)

\* a drain that sent one item, failed on the next and left two in the queue
C5_Witness ==
    \E i, j \in DOMAIN cyclelog :
        /\ i < j
        /\ IsCmd(i, "printed") /\ cyclelog[i].ok
        /\ IsCmd(j, "markitemsdone") /\ ~cyclelog[j].ok /\ cyclelog[j].left >= 2

Ascending(serials) ==
    \A i, j \in DOMAIN serials : i < j => int(serials[i]) < int(serials[j])

IsPrefix(s, t) == Len(s) <= Len(t) /\ s = SubSeq(t, 1, Len(s))

\* C2: if the messages the server returns come with ascending serials (and
\* no request fails, no reply is out of the protocol), the output queue
\* receives exactly these messages, in that ascending order and each once,
\* and each is put on the pending-acknowledgement queue once, in that order.
C2_EachItemOnceInOrder ==
    (Faults = 0 /\ Ascending(fetched))
    => /\ queued = fetched
       /\ Ascending(queued)
       /\ IsPrefix(doneserials, queued)
       /\ Ascending(doneserials)

\* three messages fetched, printed and acknowledged, the last of them
\* fetched after an earlier one was acknowledged
C2_Witness ==
    /\ Faults = 0
    /\ Len(fetched) = 3
    /\ Ascending(fetched)
    /\ doneserials = queued
    /\ acked = {1, 2, 3}

\* C4, as stated: the cursor is reset only when no item of the feed is
\* waiting to be printed or acknowledged; hence, with a server that keeps to
\* the protocol and revives nothing, no message with a serial above 0 is
\* put on the output queue a second time.
C4_ResetOnlyWhenNothingPending ==
    /\ \A i \in DOMAIN cyclelog :
          (IsCmd(i, "isfeedidle") /\ cyclelog[i].idle) => cyclelog[i].waiting = 0
    /\ Faults = 0 =>
          \A i, j \in DOMAIN queued :
              (i < j /\ queued[i] # "0") => queued[i] # queued[j]

\* C6, as stated: the "printed" notifications are attempted in the order of
\* the itemdone calls, also after a failed send: the item being sent is older
\* than every item still pending.
C6_AttemptsInItemdoneOrder ==
    pc = "send" => \A i \in DOMAIN donequeue : donequeue[i].stamp > item.stamp

\* C6, amended: a drain sends the items in queue order, which is the order
\* of the itemdone calls for the items whose send has not failed; an item
\* whose send failed is put back at the tail of the queue and is retried
\* after the items that were pending behind it.
C6_QueueOrderWithRequeue ==
    /\ (pc = "send" /\ item.stamp \notin requeued)
       => \A i \in DOMAIN donequeue :
             donequeue[i].stamp \notin requeued => donequeue[i].stamp > item.stamp
    /\ \A i, j \in DOMAIN donequeue :
          (i < j /\ donequeue[i].stamp \notin requeued
                 /\ donequeue[j].stamp \notin requeued)
          => donequeue[i].stamp < donequeue[j].stamp
    /\ \A i \in DOMAIN cyclelog :
          (IsCmd(i, "printed") /\ ~cyclelog[i].ok)
          => \E k \in DOMAIN donequeue :
                /\ donequeue[k].stamp = cyclelog[i].stamp
                /\ \A m \in k + 1 .. Len(donequeue) :
                      /\ donequeue[m].stamp \notin requeued
                      /\ \A n \in 1 .. k : donequeue[m].stamp > donequeue[n].stamp

\* an item is being sent while an older item, put back after its send
\* failed, waits behind it
C6_Witness ==
    /\ pc = "send"
    /\ \E i \in DOMAIN donequeue :
          donequeue[i].stamp \in requeued /\ donequeue[i].stamp < item.stamp

\* what a step of the Teletype's thread and a step that sends "printed" do
TeletypeAndPollSteps ==
        /\ (printing # NoItem /\ printing' = NoItem)
           => /\ server' = server
              /\ cyclelog' = cyclelog
              /\ \/ donequeue' = donequeue
                 \/ /\ Len(donequeue') = Len(donequeue) + 1
                    /\ SubSeq(donequeue', 1, Len(donequeue)) = donequeue
                    /\ donequeue'[Len(donequeue')].serial = printing.serial
        /\ (\E n \in Serials : server[n] # "printed" /\ server'[n] = "printed")
           => pc = "send"
        /\ (Len(cyclelog') > Len(cyclelog)
              /\ \E i \in Len(cyclelog) + 1 .. Len(cyclelog') :
                    cyclelog'[i].cmd = "printed")
           => /\ pc = "send"
              /\ \A i \in Len(cyclelog) + 1 .. Len(cyclelog') :
                    cyclelog'[i].cmd = "printed" => cyclelog'[i].thread = "poll"

\* C7: itemdone only puts the item on donequeue: the step of the Teletype's
\* thread is always possible when an item was printed, sends nothing to the
\* server and changes nothing there; every "printed" request, and every
\* change of a message to printed, is a step of markitemsdone in the poll
\* thread.
C7_OnlyPollCycleSends ==
    /\ [](printing # NoItem => ENABLED printed)
    /\ [][TeletypeAndPollSteps]_vars

\* an item was printed and waits on donequeue; the server still holds its
\* message as unprinted and the poll thread is between two cycles
C7_Witness ==
    /\ pc = "sleep"
    /\ donequeue # <<>>
    /\ printing = NoItem
    /\ IsNumeric(donequeue[1].serial)
    /\ int(donequeue[1].serial) \in Serials
    /\ server[int(donequeue[1].serial)] = "unprinted"

\* C8: a "printed" command for serial s is sent only for an item that
\* carries serial s and for which itemdone was called before; an item
\* without a serial is never on donequeue and never causes a command.
C8_PrintedOnlyForDoneItems ==
    /\ \A i \in DOMAIN cyclelog :
          IsCmd(i, "printed")
          => /\ cyclelog[i].stamp \in DOMAIN doneserials
             /\ cyclelog[i].req.v1 = doneserials[cyclelog[i].stamp]
             /\ cyclelog[i].req.hasv1
             /\ cyclelog[i].req.v1 # NoSerial
    /\ \A i \in DOMAIN donequeue :
          /\ donequeue[i].serial # NoSerial
          /\ ~donequeue[i].err
          /\ donequeue[i].stamp \in DOMAIN doneserials
          /\ doneserials[donequeue[i].stamp] = donequeue[i].serial
    /\ pc = "send" => item.serial # NoSerial /\ ~item.err
    /\ \A i \in DOMAIN doneserials : doneserials[i] # NoSerial

\* an error item was printed (itemdone was called for it) and a "printed"
\* command has been sent in this cycle
C8_Witness ==
    /\ nfault > 0
    /\ pc # "raised"
    /\ inqueue = <<>>
    /\ printing = NoItem
    /\ \E i \in DOMAIN cyclelog : IsCmd(i, "printed") /\ cyclelog[i].ok

FirstGetnext(i) ==
    IsCmd(i, "getnext") /\ \A j \in 1 .. i - 1 : ~IsCmd(j, "getnext")

\* C9, as stated: when a reply of poll cycle N is malformed (here: at its
\* first message), the cursor after cycle N equals the cursor before cycle
\* N, and cycle N+1 issues its fetch from that cursor.
C9_CursorAsBeforeCycle ==
    /\ (CycleOver /\ \E i \in DOMAIN cyclelog :
                        IsCmd(i, "getnext") /\ cyclelog[i].firstbad)
       => lastserial = cursor0
    /\ prev.bad =>
          \A i \in DOMAIN cyclelog :
              FirstGetnext(i) => cyclelog[i].before = prev.cursor

\* C9, amended: a reply that is malformed at its first message leaves the
\* cursor as it was when the request was sent (what earlier replies of the
\* same cycle advanced it by is kept), and it is the last request of the
\* cycle; the first fetch of the next cycle is issued from that cursor.
C9_CursorAsBeforeRequest ==
    /\ \A i \in DOMAIN cyclelog :
          (IsCmd(i, "getnext") /\ cyclelog[i].firstbad)
          => /\ cyclelog[i].after = cyclelog[i].before
             /\ i = Len(cyclelog)
             /\ CycleOver
             /\ lastserial = cyclelog[i].before
    /\ prev.bad =>
          \A i \in DOMAIN cyclelog :
              FirstGetnext(i) => cyclelog[i].before = prev.cursor

\* the cycle before this one advanced the cursor and then met a malformed
\* reply; this cycle has sent its fetch
C9_Witness ==
    /\ prev.bad
    /\ prev.cursor # prev.start
    /\ prev.cursor >= 1
    /\ \E i \in DOMAIN cyclelog : IsCmd(i, "getnext")

\* C10, as stated: for a malformed reply handlereply reports exactly one
\* error item, queues no normal item for the malformed message and returns
\* without raising.
C10_OneErrorItemNoRaise ==
    \A i \in DOMAIN cyclelog :
        (IsCmd(i, "getnext") /\ cyclelog[i].firstbad)
        => /\ cyclelog[i].raised = NoException
           /\ cyclelog[i].nerr = 1
           /\ cyclelog[i].nput = 1

\* C11: when a "getnext" request fails with IOError, fetchitems returns
\* normally (the poll thread is back in its loop, nothing was raised), one
\* error item is queued, the cursor is the one the failed request was sent
\* with, and the first fetch of the next cycle is issued from that cursor.
C11_IOErrorReturnsNormally ==
    /\ \A i \in DOMAIN cyclelog :
          (IsCmd(i, "getnext") /\ ~cyclelog[i].ok)
          => /\ i = Len(cyclelog)
             /\ pc = "sleep"
             /\ cyclelog[i].raised = NoException
             /\ cyclelog[i].nput = 1 /\ cyclelog[i].nerr = 1
             /\ cyclelog[i].after = cyclelog[i].before
             /\ lastserial = cyclelog[i].before
    /\ prev.ioerr =>
          \A i \in DOMAIN cyclelog :
              FirstGetnext(i) => cyclelog[i].before = prev.cursor

\* the cycle before this one fetched message 1 or more and then failed with
\* IOError; this cycle has sent its fetch, and it went through
C11_Witness ==
    /\ prev.ioerr
    /\ prev.cursor >= 1
    /\ prev.cursor # prev.start
    /\ \E i \in DOMAIN cyclelog : IsCmd(i, "getnext") /\ cyclelog[i].ok

\* C12, as stated: whenever a poll cycle begins with the feed idle, the
\* next fetch request the feed sends is issued with lastserial = -1.
C12_IdleAtStartResets ==
    prev.owed =>
        \A i \in DOMAIN cyclelog : FirstGetnext(i) => cyclelog[i].before = -1

\* C12, amended: the idle test is made after markitemsdone has returned
\* True; when it finds the feed idle the cursor is reset and the fetch that
\* follows in the same cycle is issued with lastserial = -1 (the request
\* carries no v1, which the server reads as serial 0); when it does not,
\* the fetch is issued from the cursor the cycle began with.  A cycle whose
\* drain failed makes no idle test and keeps the cursor.
C12_ResetWhenIdleAfterDrain ==
    /\ \A i \in DOMAIN cyclelog :
          IsCmd(i, "isfeedidle")
          => /\ i > 1 /\ IsCmd(i - 1, "markitemsdone") /\ cyclelog[i - 1].ok
             /\ i = Len(cyclelog) =>
                   /\ pc = "getnext"
                   /\ lastserial = IF cyclelog[i].idle THEN -1 ELSE cursor0
             /\ i < Len(cyclelog) =>
                   /\ IsCmd(i + 1, "getnext")
                   /\ cyclelog[i + 1].before
                         = IF cyclelog[i].idle THEN -1 ELSE cursor0
                   /\ cyclelog[i].idle =>
                         /\ ~cyclelog[i + 1].req.hasv1
                         /\ StartOf(cyclelog[i + 1].req) = 0
    /\ (\A i \in DOMAIN cyclelog : ~IsCmd(i, "isfeedidle"))
       => lastserial = cursor0

\* a cycle that began with the cursor at 1 or more found the feed idle and
\* has sent its fetch
C12_Witness ==
    /\ cursor0 >= 1
    /\ \E i \in DOMAIN cyclelog :
          /\ IsCmd(i, "isfeedidle") /\ cyclelog[i].idle
          /\ i < Len(cyclelog)

\* what a step that queues normal items does to the order of the serials
C13_Step ==
    (Faults' = 0 /\ Len(queued') > Len(queued))
    => LET new == SubSeq(queued', Len(queued) + 1, Len(queued'))
       IN  Ascending(new) /\ int(new[1]) > lastput

\* C13, as stated: between two idle resets of the cursor the serials of the
\* normal items the feed queues are strictly increasing: every item queued
\* has a serial above those queued since the last reset (with a server that
\* keeps to the protocol and no failed request).
C13_AscendingBetweenResets == [][C13_Step]_vars

\* ======================================================================
\* Part 2: the Teletype emulator
\* ======================================================================
\* ------------------------------------------------------------ constants
ESC      == 27      \* ASCII escape
CTLC     == 3       \* ASCII control-C
BLANKKEY == 0       \* the code-point sent for the blank key
FlushDelay == 1     \* the interval of the flush timer, 0.5 s, in ticks of 500 ms

\* baudot.Baudot: the two shift code-points and the line-end code-points
LTRS == 31
FIGS == 27
CR   == 8
LF   == 2

\* code-points of the characters the model types and prints
CodeA  == 3         \* "A" in letters case, "-" in figures case
CodeQ  == 23        \* "Q" in letters case, "1" in figures case
CodeSP == 4         \* the space, in either case

\* chr(n) for the control characters read looks at
chr(n) ==
    CASE n = ESC  -> "<ESC>"
      [] n = CTLC -> "<ETX>"
      [] n = 8    -> "<BS>"
      [] n = 127  -> "<DEL>"

\* baudot.Baudot.chToBaudot: the code-point of a character and the shift
\* it needs; no shift for a character that is the same in both cases; no
\* code-point for a character Baudot does not have
chToBaudot(c) ==
    CASE c = "A"  -> [bb |-> CodeA,  shift |-> LTRS]
      [] c = "Q"  -> [bb |-> CodeQ,  shift |-> LTRS]
      [] c = "-"  -> [bb |-> CodeA,  shift |-> FIGS]
      [] c = "1"  -> [bb |-> CodeQ,  shift |-> FIGS]
      [] c = " "  -> [bb |-> CodeSP, shift |-> Null]
      [] c = "\r" -> [bb |-> CR,     shift |-> Null]
      [] c = "\n" -> [bb |-> LF,     shift |-> Null]
      [] OTHER    -> [bb |-> Null,   shift |-> Null]

\* baudot.Baudot.chToASCII, for a shift that is known
chToASCII(bb, shift) ==
    CASE bb = CodeA    -> IF shift = FIGS THEN "-" ELSE "A"
      [] bb = CodeQ    -> IF shift = FIGS THEN "1" ELSE "Q"
      [] bb = CodeSP   -> " "
      [] bb = CR       -> "\r"
      [] bb = LF       -> "\n"
      [] bb = BLANKKEY -> "<NUL>"

\* the shifts a code-point may be decoded under: the shift of the stream, or
\* either of the two as long as no shift code-point was seen
ShiftsFor(shift) == IF shift = Null THEN {LTRS, FIGS} ELSE {shift}

\* the byte strings the program writes
Texts ==
    {   <<CodeA>>,
        <<FIGS, CodeQ, LF>>,
        <<LTRS, CodeA, CR>>
    }

IsTerminator(ch) == ch \in {"\n", "\r"}

\* the results of read that were not yet written
wire == SubSeq(outs, nechoed + 1, Len(outs))

\* ------------------------------------------------------------ flushOutput
\* a with statement that does not wait for the lock
acquire_nolock(thread) ==
    /\ flushlock' = thread

\* with self.flushlock, line 99
acquire(thread) ==
    /\ flushlock = "free"
    /\ flushlock' = thread

\* flushOutput that delivers the buffer and does not empty it
flushOutput_keep ==
    /\ delivered' = IF Len(outline) > 0 THEN Append(delivered, outline)
                                        ELSE delivered
    /\ outline' = outline
    /\ flushlock' = "free"

\* the body of flushOutput, lines 100-102, and the end of the with block
flushOutput ==
    /\ delivered' = IF Len(outline) > 0 THEN Append(delivered, outline)
                                        ELSE delivered
    /\ outline' = <<>>
    /\ flushlock' = "free"

\* ------------------------------------------------------------------ write
\* write(s) is called
write_begin(s) ==
    /\ alive
    /\ wpc = "idle"
    /\ nwrites' = nwrites + 1
    /\ ws' = s
    /\ wpc' = "loop"
    /\ UNCHANGED <<inshift, outshift, outline, flushlock, timers, age, wch, rpc,
                   rtext, intext, rloc, baudotread, alive, typed, outs, decoded,
                   delivered>>

\* the program writes a text of its own
write_text ==
    /\ \E s \in Texts : write_begin(s)
    /\ instep' = (instep /\ rpc = "idle" /\ wire = <<>>)
    /\ UNCHANGED <<nechoed, feed, nws, sms>>

\* the oldest result of read not yet written is written
write_echo ==
    /\ wire # <<>>
    /\ write_begin(Head(wire))
    /\ nechoed' = nechoed + 1
    /\ instep' = (instep /\ rpc = "idle")
    /\ UNCHANGED <<feed, nws, sms>>

\* write that steps over a shift code-point without taking note of it
write_shift_skip ==
    /\ alive
    /\ wpc = "loop"
    /\ ws # <<>>
    /\ Head(ws) \in {FIGS, LTRS}
    /\ ws' = Tail(ws)
    /\ UNCHANGED <<inshift, outshift, outline, flushlock, timers, age, wpc, wch,
                   rpc, rtext, intext, rloc, baudotread, alive, typed, outs, nechoed,
                   nwrites, decoded, delivered, instep, feed, nws, sms>>

\* lines 109-114: a shift code-point
write_shift ==
    /\ alive
    /\ wpc = "loop"
    /\ ws # <<>>
    /\ Head(ws) \in {FIGS, LTRS}
    /\ outshift' = Head(ws)
    /\ ws' = Tail(ws)
    /\ UNCHANGED <<inshift, outline, flushlock, timers, age, wpc, wch, rpc, rtext, intext,
                   rloc, baudotread, alive, typed, outs, nechoed, nwrites,
                   decoded, delivered, instep, feed, nws, sms>>

\* write that takes a line terminator for a character of the line
write_decode_noterm ==
    /\ alive
    /\ wpc = "loop"
    /\ ws # <<>>
    /\ Head(ws) \notin {FIGS, LTRS}
    /\ \E shift \in ShiftsFor(outshift) :
          LET ch == chToASCII(Head(ws), shift)
          IN  /\ wch' = ch
              /\ decoded' = Append(decoded, ch)
              /\ wpc' = "append"
    /\ acquire("writer")
    /\ ws' = Tail(ws)
    /\ UNCHANGED <<inshift, outshift, outline, timers, age, rpc, rtext, intext, rloc,
                   baudotread, alive, typed, outs, nechoed, nwrites, delivered,
                   instep, feed, nws, sms>>

\* lines 115-121: any other code-point is decoded; the thread then enters
\* flushOutput or the critical section of line 121
write_decode ==
    /\ alive
    /\ wpc = "loop"
    /\ ws # <<>>
    /\ Head(ws) \notin {FIGS, LTRS}
    /\ \E shift \in ShiftsFor(outshift) :
          LET ch == chToASCII(Head(ws), shift)
          IN  /\ wch' = ch
              /\ decoded' = Append(decoded, ch)
              /\ wpc' = IF IsTerminator(ch) THEN "flush" ELSE "append"
    /\ acquire("writer")
    /\ ws' = Tail(ws)
    /\ UNCHANGED <<inshift, outshift, outline, timers, age, rpc, rtext, intext, rloc,
                   baudotread, alive, typed, outs, nechoed, nwrites, delivered,
                   instep, feed, nws, sms>>

\* line 122
write_append ==
    /\ alive
    /\ wpc = "append"
    /\ outline' = Append(outline, wch)
    /\ flushlock' = "free"
    /\ wpc' = "loop"
    /\ UNCHANGED <<inshift, outshift, timers, age, ws, wch, rpc, rtext, intext, rloc,
                   baudotread, alive, typed, outs, nechoed, nwrites, decoded,
                   delivered, instep, feed, nws, sms>>

\* line 119
write_flush ==
    /\ alive
    /\ wpc = "flush"
    /\ flushOutput
    /\ wpc' = "loop"
    /\ UNCHANGED <<inshift, outshift, timers, age, ws, wch, rpc, rtext, intext, rloc,
                   baudotread, alive, typed, outs, nechoed, nwrites, decoded,
                   instep, feed, nws, sms>>

\* write that leaves the input side's shift state as it is
write_sync_keep ==
    /\ alive
    /\ wpc = "loop"
    /\ ws = <<>>
    /\ wpc' = "timer"
    /\ UNCHANGED <<inshift, outshift, outline, flushlock, timers, age, ws, wch, rpc,
                   rtext, intext, rloc, baudotread, alive, typed, outs, nechoed,
                   nwrites, decoded, delivered, instep, feed, nws, sms>>

\* line 123
write_sync ==
    /\ alive
    /\ wpc = "loop"
    /\ ws = <<>>
    /\ inshift' = outshift
    /\ wpc' = "timer"
    /\ UNCHANGED <<outshift, outline, flushlock, timers, age, ws, wch, rpc, rtext, intext,
                   rloc, baudotread, alive, typed, outs, nechoed, nwrites,
                   decoded, delivered, instep, feed, nws, sms>>

\* Timer.cancel on self.flushtimer sets the timer's event finished: a timer
\* that still waits will not call flushOutput, one that is past its test of
\* the event will
cancel(ts) ==
    IF ts # <<>> /\ ts[Len(ts)] = "waiting"
    THEN [ts EXCEPT ![Len(ts)] = "finished"]
    ELSE ts

\* write that starts the new timer and leaves the old one alone
write_timer_nocancel ==
    /\ alive
    /\ wpc = "timer"
    /\ timers' = Append(timers, "waiting")
    /\ age' = 0
    /\ wpc' = "idle"
    /\ UNCHANGED <<inshift, outshift, outline, flushlock, ws, wch, rpc, rtext, intext,
                   rloc, baudotread, alive, typed, outs, nechoed, nwrites,
                   decoded, delivered, instep, feed, nws, sms>>

\* write that cancels the old timer and starts no new one
write_timer_nostart ==
    /\ alive
    /\ wpc = "timer"
    /\ timers' = cancel(timers)
    /\ age' = 0
    /\ wpc' = "idle"
    /\ UNCHANGED <<inshift, outshift, outline, flushlock, ws, wch, rpc, rtext, intext,
                   rloc, baudotread, alive, typed, outs, nechoed, nwrites,
                   decoded, delivered, instep, feed, nws, sms>>

\* lines 126-130
write_timer ==
    /\ alive
    /\ wpc = "timer"
    /\ timers' = Append(cancel(timers), "waiting")
    /\ age' = 0
    /\ wpc' = "idle"
    /\ UNCHANGED <<inshift, outshift, outline, flushlock, ws, wch, rpc, rtext, intext,
                   rloc, baudotread, alive, typed, outs, nechoed, nwrites,
                   decoded, delivered, instep, feed, nws, sms>>

\* ------------------------------------------------------ the flush timers
\* time passes
Tick ==
    /\ alive
    /\ timers # <<>>
    /\ age < FlushDelay
    /\ age' = age + 1
    /\ UNCHANGED <<inshift, outshift, outline, flushlock, timers, wpc, ws, wch,
                   rpc, rtext, intext, rloc, baudotread, alive, typed, outs, nechoed,
                   nwrites, decoded, delivered, instep, feed, nws, sms>>

\* Timer.run: the interval is over and the timer was not cancelled
timer_fire(i) ==
    /\ alive
    /\ timers[i] = "waiting"
    /\ age >= FlushDelay
    /\ timers' = [timers EXCEPT ![i] = "fired"]
    /\ UNCHANGED <<inshift, outshift, outline, flushlock, age, wpc, ws, wch, rpc,
                   rtext, intext, rloc, baudotread, alive, typed, outs, nechoed, nwrites,
                   decoded, delivered, instep, feed, nws, sms>>

\* the timer's thread calls flushOutput and enters its critical section
timer_acquire(i) ==
    /\ alive
    /\ timers[i] = "fired"
    /\ acquire("timer")
    /\ timers' = [timers EXCEPT ![i] = "flushing"]
    /\ UNCHANGED <<inshift, outshift, outline, age, wpc, ws, wch, rpc, rtext, intext,
                   rloc, baudotread, alive, typed, outs, nechoed, nwrites,
                   decoded, delivered, instep, feed, nws, sms>>

\* flushOutput in the timer's thread; Timer.run then sets the event finished
timer_flush(i) ==
    /\ alive
    /\ timers[i] = "flushing"
    /\ flushOutput
    /\ timers' = [timers EXCEPT ![i] = "finished"]
    /\ UNCHANGED <<inshift, outshift, age, wpc, ws, wch, rpc, rtext, intext, rloc,
                   baudotread, alive, typed, outs, nechoed, nwrites, decoded,
                   instep, feed, nws, sms>>

\* ------------------------------------------------------------------- read
\* lines 143-144: getch returns intext and the thread enters flushOutput
read_begin(input) ==
    /\ alive
    /\ rpc = "idle"
    /\ acquire("reader")
    /\ intext' = input
    /\ rtext' = input
    /\ typed' = typed \o input
    /\ instep' = (instep /\ wpc = "idle" /\ wire = <<>>)
    /\ rpc' = "flush"
    /\ UNCHANGED <<inshift, outshift, outline, timers, age, wpc, ws, wch, rloc,
                   baudotread, alive, outs, nechoed, nwrites, decoded, delivered,
                   feed, nws, sms>>

\* line 144, then line 145
read_flush ==
    /\ alive
    /\ rpc = "flush"
    /\ flushOutput
    /\ baudotread' = <<>>
    /\ rpc' = "loop"
    /\ UNCHANGED <<inshift, outshift, timers, age, wpc, ws, wch, rtext, intext, rloc,
                   alive, typed, outs, nechoed, nwrites, decoded, instep, feed, nws, sms>>

\* tobaudot that gives the backspace key the letters case
tobaudot_cased(inbyte0) ==
    IF inbyte0 = chr(8) \/ inbyte0 = chr(127)
    THEN [bb |-> BLANKKEY, shift |-> LTRS]
    ELSE chToBaudot(inbyte0)

\* lines 154-163: the code-point and the shift of a character
tobaudot(inbyte0) ==
    LET inbyte == IF inbyte0 = "\n" THEN "\r" ELSE inbyte0
    IN  IF inbyte = chr(ESC)
        THEN [bb |-> 0, shift |-> Null]
        ELSE IF inbyte = chr(8) \/ inbyte = chr(127)
        THEN [bb |-> BLANKKEY, shift |-> Null]
        ELSE chToBaudot(inbyte)

\* lines 167-170
addbaudot(bb) == IF bb = Null THEN baudotread ELSE Append(baudotread, bb)

\* read that puts out the shift of every character that has one
read_char_always ==
    /\ alive
    /\ rpc = "loop"
    /\ rtext # <<>>
    /\ rtext' = Tail(rtext)
    /\ IF Head(rtext) = chr(CTLC)
       THEN /\ alive' = FALSE
            /\ UNCHANGED <<rpc, rloc, baudotread>>
       ELSE LET c == tobaudot(Head(rtext))
            IN  /\ UNCHANGED alive
                /\ IF c.shift # Null
                   THEN /\ baudotread' = Append(baudotread, c.shift)
                        /\ rloc' = c
                        /\ rpc' = "setshift"
                   ELSE /\ baudotread' = addbaudot(c.bb)
                        /\ UNCHANGED <<rpc, rloc>>
    /\ UNCHANGED <<inshift, outshift, outline, flushlock, timers, age, wpc, ws,
                   wch, intext, typed, outs, nechoed, nwrites, decoded, delivered,
                   instep, feed, nws, sms>>

\* read that takes Control-C for a character without a code-point
read_char_noexit ==
    /\ alive
    /\ rpc = "loop"
    /\ rtext # <<>>
    /\ rtext' = Tail(rtext)
    /\ LET c == tobaudot(Head(rtext))
       IN  IF c.shift # Null /\ c.shift # inshift
           THEN /\ baudotread' = Append(baudotread, c.shift)
                /\ rloc' = c
                /\ rpc' = "setshift"
           ELSE /\ baudotread' = addbaudot(c.bb)
                /\ UNCHANGED <<rpc, rloc>>
    /\ UNCHANGED <<inshift, outshift, outline, flushlock, timers, age, wpc, ws,
                   wch, intext, alive, typed, outs, nechoed, nwrites, decoded,
                   delivered, instep, feed, nws, sms>>

\* lines 147-165 and 167-170: one character of the input, up to the
\* assignment to inshift when a shift is put out
read_char ==
    /\ alive
    /\ rpc = "loop"
    /\ rtext # <<>>
    /\ rtext' = Tail(rtext)
    /\ IF Head(rtext) = chr(CTLC)
       THEN /\ alive' = FALSE
            /\ UNCHANGED <<rpc, rloc, baudotread>>
       ELSE LET c == tobaudot(Head(rtext))
            IN  /\ UNCHANGED alive
                /\ IF c.shift # Null /\ c.shift # inshift
                   THEN /\ baudotread' = Append(baudotread, c.shift)
                        /\ rloc' = c
                        /\ rpc' = "setshift"
                   ELSE /\ baudotread' = addbaudot(c.bb)
                        /\ UNCHANGED <<rpc, rloc>>
    /\ UNCHANGED <<inshift, outshift, outline, flushlock, timers, age, wpc, ws,
                   wch, intext, typed, outs, nechoed, nwrites, decoded, delivered,
                   instep, feed, nws, sms>>

\* line 166, then lines 167-170
read_setshift ==
    /\ alive
    /\ rpc = "setshift"
    /\ inshift' = rloc.shift
    /\ baudotread' = addbaudot(rloc.bb)
    /\ rpc' = "loop"
    /\ UNCHANGED <<outshift, outline, flushlock, timers, age, wpc, ws, wch, rtext, intext,
                   rloc, alive, typed, outs, nechoed, nwrites, decoded, delivered,
                   instep, feed, nws, sms>>

\* lines 171-173
read_return ==
    /\ alive
    /\ rpc = "loop"
    /\ rtext = <<>>
    /\ outs' = Append(outs, IF Len(baudotread) # 1
                            THEN Append(baudotread, CR)
                            ELSE baudotread)
    /\ baudotread' = <<>>
    /\ rpc' = "idle"
    /\ UNCHANGED <<inshift, outshift, outline, flushlock, timers, age, wpc, ws,
                   wch, rtext, intext, rloc, alive, typed, nechoed, nwrites, decoded,
                   delivered, instep, feed, nws, sms>>

\* the keys of the keyboard: two letters-case and figures-case characters,
\* the space, which has no case, a character Baudot does not have, and the
\* backspace key
Keys == {"A", "1", " ", "~", chr(8)}

\* the text getch returns for a key; the empty text at the end of the input
Intexts(keys) == {<<k>> : k \in keys} \cup {<<>>}

\* the Teletype with its three kinds of threads; the keyboard has the keys
\* that differ in what read does to the shared state
NextTeletype ==
    \/ nwrites < MaxWrites /\ write_text
    \/ write_shift
    \/ write_decode
    \/ write_append
    \/ write_flush
    \/ write_sync
    \/ write_timer
    \/ Tick
    \/ \E i \in DOMAIN timers : timer_fire(i)
    \/ \E i \in DOMAIN timers : timer_acquire(i)
    \/ \E i \in DOMAIN timers : timer_flush(i)
    \/ /\ Len(outs) < MaxReads
       /\ \E key \in {"A", " ", chr(CTLC)} : read_begin(<<key>>)
    \/ read_flush
    \/ read_char
    \/ read_setshift
    \/ read_return

SpecTeletype == Init /\ [][NextTeletype]_vars

\* the threads of the Teletype: each timer's thread (threading.Timer.run),
\* the thread that is inside write, the thread that is inside read
TimerThreads ==
    \E i \in DOMAIN timers : timer_fire(i) \/ timer_acquire(i) \/ timer_flush(i)

WriterThread ==
    write_shift \/ write_decode \/ write_append \/ write_flush \/ write_sync
    \/ write_timer

ReaderThread == read_flush \/ read_char \/ read_setshift \/ read_return

\* the scheduler lets every thread that can run go on, and time passes;
\* nothing makes the program write or the user type
SpecTeletypeLive ==
    /\ SpecTeletype
    /\ WF_vars(Tick)
    /\ WF_vars(TimerThreads)
    /\ WF_vars(WriterThread)
    /\ WF_vars(ReaderThread)

\* the keyboard and its echo: every result of read is written back, in
\* order, sooner or later; the run is shorter than the flush delay
NextKeyboard ==
    \/ nwrites < MaxKeys /\ write_echo
    \/ write_shift
    \/ write_decode
    \/ write_append
    \/ write_flush
    \/ write_sync
    \/ write_timer
    \/ /\ Len(outs) < MaxKeys
       /\ \E input \in Intexts(Keys) : read_begin(input)
    \/ read_flush
    \/ read_char
    \/ read_setshift
    \/ read_return

SpecKeyboard == Init /\ [][NextKeyboard]_vars

\* ======================================================================
\* The claims about the Teletype emulator
\* ======================================================================
RECURSIVE Flatten(_)
Flatten(seqs) == IF seqs = <<>> THEN <<>> ELSE Head(seqs) \o Flatten(Tail(seqs))

IsShift(bb) == bb \in {LTRS, FIGS}

ShiftCount(codes) == Cardinality({i \in DOMAIN codes : IsShift(codes[i])})

\* every code-point read has put out so far, in order
Emitted == Flatten(outs) \o baudotread

\* the characters read has handled so far
Handled == SubSeq(typed, 1, Len(typed) - Len(rtext))

\* the cases of the characters that have one, in order
CasesOf(chars) ==
    SelectSeq([i \in DOMAIN chars |-> tobaudot(chars[i]).shift],
              LAMBDA shift : shift # Null)

\* the changes of case in a sequence of cases that starts in no case
Transitions(cases) ==
    Cardinality({i \in DOMAIN cases :
                    cases[i] # (IF i = 1 THEN Null ELSE cases[i - 1])})

\* what read does with one character, and with the shift it has put out
C14_ReadSteps ==
    /\ (rpc = "loop" /\ rtext # <<>> /\ rtext' = Tail(rtext)
           /\ Head(rtext) # chr(CTLC))
       => LET needed == tobaudot(Head(rtext)).shift
              bb     == tobaudot(Head(rtext)).bb
          IN  IF needed # Null /\ needed # inshift
              THEN /\ baudotread' = Append(baudotread, needed)
                   /\ rpc' = "setshift"
                   /\ rloc' = [bb |-> bb, shift |-> needed]
              ELSE /\ baudotread' = IF bb = Null THEN baudotread
                                                  ELSE Append(baudotread, bb)
                   /\ inshift' = inshift
                   /\ rpc' = "loop"
    /\ (rpc = "setshift" /\ rpc' # "setshift")
       => /\ inshift' = rloc.shift
          /\ baudotread[Len(baudotread)] = rloc.shift
          /\ baudotread' = Append(baudotread, rloc.bb)

\* C14: read puts a shift code-point out, immediately before the
\* character's code-point, if and only if the character has a case and it
\* differs from inshift, and then sets inshift to it; over any sequence of
\* read calls (no write having touched inshift) the code-points put out
\* hold exactly one shift code-point for each change of case of the
\* characters typed.
C14_ShiftIffCaseDiffers ==
    /\ []((timers = <<>> /\ wpc # "timer" /\ rpc # "setshift")
            => /\ ShiftCount(Emitted) = Transitions(CasesOf(Handled))
               /\ inshift = (IF CasesOf(Handled) = <<>> THEN Null
                             ELSE CasesOf(Handled)[Len(CasesOf(Handled))]))
    /\ [][C14_ReadSteps]_vars

\* three keys were read, two of the same case and one of the other, and no
\* write has touched inshift: two shift code-points were put out
C14_Witness ==
    /\ rpc = "idle"
    /\ timers = <<>> /\ wpc # "timer"
    /\ typed = <<"A", "A", "1">>
    /\ ShiftCount(Emitted) = 2

\* the characters of a text that are no line terminators
TextOf(chars) == SelectSeq(chars, LAMBDA ch : ~IsTerminator(ch))

\* every character typed has a code-point
Representable(chars) == \A i \in DOMAIN chars : tobaudot(chars[i]).bb # Null

\* every result of read has been written, and the two threads are at rest
EchoDone ==
    /\ rpc = "idle"
    /\ wpc = "idle"
    /\ nechoed = Len(outs)
    /\ nwrites = nechoed

\* C15, as stated: when the code-points read has returned are given to
\* write, in order, write decodes exactly the characters that were typed.
C15_RoundTrip ==
    (EchoDone /\ Representable(typed)) => TextOf(decoded) = TextOf(typed)

\* the round trip of C15 for calls that do not overlap: it holds when the
\* result of each read is written before the next read begins and no read
\* runs during a write.
C15_RoundTripInStep ==
    (EchoDone /\ Representable(typed) /\ instep)
    => TextOf(decoded) = TextOf(typed)

\* three keys that change case twice were read and written back in step
C15_Witness ==
    /\ EchoDone
    /\ instep
    /\ typed = <<"A", "1", "A">>
    /\ decoded # <<>>

\* a step in which the thread of a timer delivers a line
TimerDelivers ==
    /\ Len(delivered') > Len(delivered)
    /\ \E i \in DOMAIN timers : timers[i] = "flushing" /\ timers'[i] = "finished"

\* C16, as stated: after a write has returned and while nothing else
\* happens at the Teletype, no line is delivered by a flush timer before
\* the flush delay has passed since that write.
C16_NoTimerFlushBeforeDelay ==
    [][(TimerDelivers /\ wpc = "idle" /\ rpc = "idle") => age >= FlushDelay]_vars

Waiting == {i \in DOMAIN timers : timers[i] = "waiting"}

\* C17: at most one flush timer waits for its deadline: every write that
\* has reached its end has started one timer, the newest timer is the only
\* one that can be waiting, and it was started with a fresh deadline when
\* the write ended.
C17_OneTimerPending ==
    /\ [](/\ Cardinality(Waiting) <= 1
          /\ \A i \in Waiting : i = Len(timers)
          /\ Len(timers) = nwrites - (IF wpc = "idle" THEN 0 ELSE 1))
    /\ [][(wpc = "timer" /\ wpc' = "idle")
            => /\ Len(timers') = Len(timers) + 1
               /\ timers'[Len(timers')] = "waiting"
               /\ age' = 0
               /\ \A i \in DOMAIN timers :
                     /\ timers'[i] # "waiting"
                     /\ timers[i] # "waiting" => timers'[i] = timers[i]]_vars

\* two writes have left two characters in the buffer; the timer of the
\* first was cancelled before it fired, the timer of the second waits
C17_Witness ==
    /\ wpc = "idle"
    /\ timers = <<"finished", "waiting">>
    /\ Len(outline) = 2
    /\ delivered = <<>>
    /\ typed = <<>>

NoTerminator(chars) == \A i \in DOMAIN chars : ~IsTerminator(chars[i])

\* C18: when write has decoded CR or LF it calls flushOutput at once: the
\* thread holds the lock, the whole buffer is delivered as one line (if it
\* holds anything) and is empty afterwards; no line terminator ever gets
\* into the buffer or into a delivered line.
C18_TerminatorFlushes ==
    /\ [](/\ NoTerminator(outline)
          /\ \A i \in DOMAIN delivered : NoTerminator(delivered[i])
          /\ wpc = "flush" => (flushlock = "writer" /\ IsTerminator(wch))
          /\ wpc = "append" => ~IsTerminator(wch))
    /\ [][(wpc = "flush" /\ wpc' # "flush")
            => /\ flushlock = "writer" /\ flushlock' = "free"
               /\ outline' = <<>>
               /\ delivered' = IF outline # <<>> THEN Append(delivered, outline)
                                                 ELSE delivered]_vars

\* the write of "A", CR has delivered the line "A": nothing else was
\* written or typed, and no timer was started yet
C18_Witness ==
    /\ wpc = "loop"
    /\ IsTerminator(wch)
    /\ outline = <<>>
    /\ delivered = <<<<"A">>>>
    /\ timers = <<>>
    /\ typed = <<>>

\* the threads inside a critical section of the buffer: the writer in line
\* 122 or in flushOutput, the reader in flushOutput, the timers in
\* flushOutput
InCritical ==
    (IF wpc \in {"append", "flush"} THEN 1 ELSE 0)
    + (IF rpc = "flush" THEN 1 ELSE 0)
    + Cardinality({i \in DOMAIN timers : timers[i] = "flushing"})

\* C19: at most one thread is inside a critical section of the buffer, and
\* it is the one that holds flushlock.
C19_OneAgentInCriticalSection ==
    /\ InCritical <= 1
    /\ InCritical = 0 <=> flushlock = "free"
    /\ wpc \in {"append", "flush"} => flushlock = "writer"
    /\ rpc = "flush" => flushlock = "reader"
    /\ (\E i \in DOMAIN timers : timers[i] = "flushing") => flushlock = "timer"

\* the reader is inside flushOutput with characters in the buffer while a
\* timer that has fired and the writer both are about to enter
C19_Witness ==
    /\ rpc = "flush"
    /\ outline # <<>>
    /\ \E i \in DOMAIN timers : timers[i] = "fired"
    /\ wpc = "loop" /\ ws # <<>> /\ ~IsShift(Head(ws))

\* C20, as stated: every step that changes the line buffer or one of the
\* shift states is made by a thread that holds flushlock.
C20_MutationsUnderLock ==
    [][(outline' # outline \/ inshift' # inshift \/ outshift' # outshift)
         => flushlock # "free"]_vars

\* the step that ends a call of read, and what that call returns
ReadReturns == rpc = "loop" /\ rpc' = "idle"

Result == outs'[Len(outs')]

\* C21, as stated: read appends CR to its result exactly when the
\* code-points it has assembled are not a single one, and a call of read
\* that got a single character returns exactly one code-point, without CR.
C21_CROnlyForLongInput ==
    [][ReadReturns
        => /\ Result = IF Len(baudotread) # 1 THEN Append(baudotread, CR)
                                              ELSE baudotread
           /\ Len(intext) = 1 => (Len(Result) = 1 /\ Result = baudotread)]_vars

\* a character of the keyboard that has no code-point
Unrepresentable(inbyte) == inbyte # chr(CTLC) /\ tobaudot(inbyte).bb = Null

\* the step of read's loop for a character that has no code-point: nothing
\* is appended, inshift is kept, and read goes on with the next character
C22_SkippedInLoop ==
    (rpc = "loop" /\ rtext # <<>> /\ rtext' = Tail(rtext)
        /\ Unrepresentable(Head(rtext)))
    => /\ baudotread' = baudotread
       /\ inshift' = inshift
       /\ alive' = alive
       /\ rpc' = "loop"

\* C22, as stated: a character that has no code-point is skipped, read
\* goes on, inshift is unchanged, and a call of read that got nothing but
\* such characters returns no code-point for the receiver.
C22_UnrepresentableSendsNothing ==
    [][/\ C22_SkippedInLoop
       /\ (ReadReturns /\ intext # <<>>
             /\ \A i \in DOMAIN intext : Unrepresentable(intext[i]))
          => Result = <<>>]_vars

IsBackspace(inbyte) == inbyte = chr(8) \/ inbyte = chr(127)

Aborted == \E i \in DOMAIN typed : typed[i] = chr(CTLC)

\* C23, as stated: once the abort key has been received no line is
\* delivered any more.
C23_NoOutputAfterAbortKey ==
    [][Aborted => delivered' = delivered]_vars

\* C23, amended: the call of read that got Control-C flushes the buffer
\* like every call, then ends the process when its loop comes to the
\* character: it returns nothing, and after the exit nothing is delivered
\* and nothing else happens.
C23_AbortAfterFlush ==
    /\ [](Aborted => /\ Len(outs) < Len(typed)
                     /\ alive => (rpc \in {"flush", "loop"}
                                    /\ rtext = <<chr(CTLC)>>)
                     /\ ~alive => (rpc = "loop" /\ baudotread = <<>>))
    /\ [][/\ alive
          /\ (Aborted /\ rpc = "flush" /\ rpc' = "loop")
             => /\ outline' = <<>>
                /\ delivered' = IF outline # <<>> THEN Append(delivered, outline)
                                                  ELSE delivered
          /\ (Aborted /\ rpc = "loop" /\ rtext' # rtext) => ~alive']_vars

\* "A" was written and waited in the buffer for its timer when Control-C
\* was typed: the process has ended, the line was delivered by the flush
\* of read, and the timer never fired
C23_Witness ==
    /\ ~alive
    /\ Aborted
    /\ nwrites = 1 /\ wpc = "idle"
    /\ timers = <<"waiting">>
    /\ delivered = <<<<"A">>>>

\* the step of write's loop that takes the next code-point of s
WriteTakes == wpc = "loop" /\ ws # <<>> /\ ws' = Tail(ws)

\* C27: a FIGS or LTRS code-point sets outshift to it and adds no
\* character to the line; every other code-point is decoded under the
\* outshift of that moment (under either case as long as no shift
\* code-point was written) and leaves outshift alone; the line grows only
\* by the character decoded last.
C27_WriteShiftAndDecode ==
    [][/\ (WriteTakes /\ IsShift(Head(ws)))
          => /\ outshift' = Head(ws)
             /\ outline' = outline
             /\ decoded' = decoded
             /\ wpc' = "loop"
       /\ (WriteTakes /\ ~IsShift(Head(ws)))
          => /\ outshift' = outshift
             /\ \E shift \in ShiftsFor(outshift) :
                   decoded' = Append(decoded, chToASCII(Head(ws), shift))
             /\ wch' = decoded'[Len(decoded')]
       /\ outline' # outline
          => \/ outline' = <<>>
             \/ wpc = "append" /\ outline' = Append(outline, wch)]_vars

\* FIGS, the code-point of Q and 1, LF was written to a new instance: "1"
\* was decoded in figures case and delivered as a line
C27_Witness ==
    /\ nwrites = 1
    /\ wpc = "loop" /\ ws = <<>>
    /\ outshift = FIGS
    /\ decoded = <<"1", "\n">>
    /\ delivered = <<<<"1">>>>

\* ======================================================================
\* Part 3: the weather report
\* ======================================================================
HoursAhead == 72        \* getnwsforecast asks for the forecasts of 72 hours

\* ------------------------------------------------------------ parseisotime
\* a timestamp is held as the two parts parseisotime cuts it into: the
\* first 19 characters, either <<day, hour, minute>> or <<>> when strptime
\* cannot read them, and the characters that follow
DateParts == {<<>>, <<1, 0, 30>>, <<1, 23, 0>>}

OffsetParts ==
    {   <<>>,
        <<"Z">>,
        <<"z">>,
        <<"+", "0", "1", ":", "0", "0">>,
        <<"-", "0", "1", ":", "3", "0">>,
        <<"E", "S", "T">>
    }

Timestamps == [datetimepart : DateParts, offsetpart : OffsetParts]

IsDigit(c) == c \in {"0", "1", "2", "3", "4", "5", "6", "7", "8", "9"}

DigitVal(c) ==
    CASE c = "0" -> 0 [] c = "1" -> 1 [] c = "2" -> 2 [] c = "3" -> 3
      [] c = "4" -> 4 [] c = "5" -> 5 [] c = "6" -> 6 [] c = "7" -> 7
      [] c = "8" -> 8 [] c = "9" -> 9

\* int() of two digits
int2(a, b) == 10 * DigitVal(a) + DigitVal(b)

\* str.upper, for the letters that occur
upper(cs) == [i \in DOMAIN cs |-> IF cs[i] = "z" THEN "Z" ELSE cs[i]]

\* re.match(r'([+-])(\d\d):(\d\d)', offsetpart): the pattern is looked for
\* at the start of offsetpart, what follows it is not looked at
rematch(offsetpart) ==
    /\ Len(offsetpart) >= 6
    /\ offsetpart[1] \in {"+", "-"}
    /\ IsDigit(offsetpart[2]) /\ IsDigit(offsetpart[3])
    /\ offsetpart[4] = ":"
    /\ IsDigit(offsetpart[5]) /\ IsDigit(offsetpart[6])

\* datetime.strptime(datetimepart, "%Y-%m-%dT%H:%M:%S"), in minutes
strptime(datetimepart) ==
    IF datetimepart = <<>>
    THEN [exc |-> "ValueError", dt |-> 0, aware |-> FALSE]
    ELSE [exc |-> NoException,
          dt  |-> (datetimepart[1] * 24 + datetimepart[2]) * 60 + datetimepart[3],
          aware |-> FALSE]

Raise(e) == [exc |-> e, dt |-> 0, aware |-> FALSE]

\* parseisotime, lines 77-104: the datetime in minutes, whether it is
\* aware, or the exception raised. For Z line 89 compares the local
\* variable offset, which has no value yet, with 0.
parseisotime(s) ==
    LET naive == strptime(s.datetimepart)
        op    == s.offsetpart
    IN  IF naive.exc # NoException THEN naive
        ELSE IF Len(op) > 0
        THEN IF upper(op) = <<"Z">>
             THEN Raise("UnboundLocalError")
             ELSE IF ~rematch(op) THEN Raise("RuntimeError")
             ELSE LET unsigned == int2(op[2], op[3]) * 60 + int2(op[5], op[6])
                      offset   == IF op[1] = "-" THEN 0 - unsigned ELSE unsigned
                  IN  [exc |-> NoException, dt |-> naive.dt - offset,
                       aware |-> TRUE]
        ELSE naive

\* ------------------------------------------------------- the XML document
MaxPeriods == 2         \* time items in a time layout, texts in a forecast

\* what the reply of the weather service can be
ReplyKinds == {"ioerror", "notxml", "xml"}

\* an XML item that is to hold a timestamp: the item may be missing, have
\* no text, have the text NA, or have a text that is taken for a timestamp
Item(kind, s) == [item |-> kind, text |-> s]

NoStamp == [datetimepart |-> <<>>, offsetpart |-> <<>>]

NoItemFound == Item("absent", NoStamp)

NoText == Item("notext", NoStamp)

NA == Item("NA", NoStamp)

\* the items _parseheader looks for
Headers ==
    [root     : {"dwml", "html"},
     product  : BOOLEAN,
     creation : {Item("text", s) : s \in Timestamps} \cup {NoText, NoItemFound},
     datatype : {"forecast", "other"},
     location : {"city", "city_nostate", "city_notext", "area", "area_notext",
                 "none"}]

\* the texts of the start-valid-time items
TimeTexts ==
    {   NoText,
        NA,
        Item("text", [datetimepart |-> <<1, 23, 0>>,
                      offsetpart   |-> <<"+", "0", "1", ":", "0", "0">>]),
        Item("text", [datetimepart |-> <<1, 0, 30>>, offsetpart |-> <<>>]),
        Item("text", [datetimepart |-> <<1, 0, 30>>, offsetpart |-> <<"Z">>]),
        Item("text", [datetimepart |-> <<>>, offsetpart |-> <<>>])
    }

SeqsUpTo(S, n) == UNION {[1..k -> S] : k \in 0..n}

\* the time-layout items of the document: none or one
Layouts ==
    {<<>>} \cup {<<l>> : l \in [key   : {"k1", "<none>", Absent},
                                times : SeqsUpTo(TimeTexts, MaxPeriods)]}

\* the wordedForecast items of the document: none or one
Forecasts ==
    {<<>>} \cup {<<f>> : f \in [timelayout : {"k1", "k2", Absent},
                                texts      : SeqsUpTo({"Sunny", "<none>"}, MaxPeriods)]}

\* the exceptions the try statement of nwsxml.parse catches, line 312
Caught == {"RuntimeError", "EnvironmentError", "ParseError"}

\* ------------------------------------------------------------ _parseheader
\* lines 181-223: the exception _parseheader raises for a header, in the
\* order of its tests, or NoException
headerexc(h) ==
    IF h.root # "dwml" THEN "RuntimeError"
    ELSE IF ~h.product THEN "RuntimeError"
    ELSE IF h.creation.item \in {"absent", "notext"} THEN "RuntimeError"
    ELSE IF parseisotime(h.creation.text).exc # NoException
         THEN parseisotime(h.creation.text).exc
    ELSE IF h.datatype # "forecast" THEN "RuntimeError"
    ELSE CASE h.location = "none"         -> "RuntimeError"
           [] h.location = "city_notext"  -> "RuntimeError"
           [] h.location = "city_nostate" -> "TypeError"
           [] h.location = "area_notext"  -> "RuntimeError"
           [] OTHER                       -> NoException

\* line 200 was reached and has assigned self.creationtime
SetsCreationtime(h) ==
    /\ h.root = "dwml" /\ h.product
    /\ h.creation.item = "text"
    /\ parseisotime(h.creation.text).exc = NoException

\* lines 306-314: what becomes of an exception raised inside the try
\* statement of parse: a caught one is recorded in err and parse returns,
\* any other leaves parse and getnwsforecast
handle(e, nextpc) ==
    IF e = NoException
    THEN /\ fpc' = nextpc
         /\ UNCHANGED <<err, exc>>
    ELSE IF e \in Caught
    THEN /\ err' = "Unable to interpret weather data"
         /\ fpc' = "asString"
         /\ UNCHANGED exc
    ELSE /\ exc' = e
         /\ fpc' = "raised"
         /\ UNCHANGED err

\* lines 343-349: the document is fetched and read as XML
getnwsforecast_open ==
    /\ fpc = "idle"
    /\ tree.kind = ""
    /\ \E kind \in ReplyKinds :
          /\ tree' = [tree EXCEPT !.kind = kind]
          /\ CASE kind = "ioerror" ->
                    /\ text' = [kind |-> "Unable to get weather forecast",
                                periods |-> <<>>]
                    /\ fpc' = "returned"
                    /\ UNCHANGED exc
               [] kind = "notxml" ->
                    /\ exc' = "ParseError"
                    /\ fpc' = "raised"
                    /\ UNCHANGED text
               [] kind = "xml" ->
                    /\ fpc' = "header"
                    /\ UNCHANGED <<text, exc>>
    /\ UNCHANGED <<err, creationtime, timelayouts, perioditems, feed, tty, sms>>

\* line 308
_parseheader ==
    /\ fpc = "header"
    /\ \E h \in Headers :
          /\ tree' = [tree EXCEPT !.header = h]
          /\ creationtime' = IF SetsCreationtime(h) THEN parseisotime(h.creation.text)
                                                    ELSE creationtime
          /\ handle(headerexc(h), "layouts")
    /\ UNCHANGED <<timelayouts, perioditems, text, feed, tty, sms>>

\* --------------------------------------------------------- _parsetimelayouts
RECURSIVE _parsetimeitems(_, _)
\* lines 230-242: the list of times, none for a layout that is discarded
_parsetimeitems(times, timeitemlist) ==
    IF times = <<>>
    THEN [exc |-> NoException, none |-> FALSE, list |-> timeitemlist]
    ELSE LET periodtime == Head(times)
         IN  IF periodtime.item = "notext"
             THEN [exc |-> "RuntimeError", none |-> TRUE, list |-> <<>>]
             ELSE IF periodtime.item = "NA"
             THEN [exc |-> NoException, none |-> TRUE, list |-> <<>>]
             ELSE IF parseisotime(periodtime.text).exc # NoException
             THEN [exc |-> parseisotime(periodtime.text).exc, none |-> TRUE,
                   list |-> <<>>]
             ELSE _parsetimeitems(Tail(times),
                     Append(timeitemlist, parseisotime(periodtime.text)))

RECURSIVE parsetimelayouts(_, _)
\* lines 249-262
parsetimelayouts(layouts, acc) ==
    IF layouts = <<>> THEN [exc |-> NoException, timelayouts |-> acc]
    ELSE LET layout == Head(layouts)
         IN  IF layout.key \in {Absent, "<none>"}
             THEN [exc |-> "RuntimeError", timelayouts |-> acc]
             ELSE LET r == _parsetimeitems(layout.times, <<>>)
                  IN  IF r.exc # NoException
                      THEN [exc |-> r.exc, timelayouts |-> acc]
                      ELSE parsetimelayouts(Tail(layouts),
                               IF ~r.none /\ r.list # <<>>
                               THEN (layout.key :> r.list) @@ acc
                               ELSE acc)

\* line 309
_parsetimelayouts ==
    /\ fpc = "layouts"
    /\ \E layouts \in Layouts :
          LET r == parsetimelayouts(layouts, <<>>)
          IN  /\ tree' = [tree EXCEPT !.layouts = layouts]
              /\ timelayouts' = IF r.exc = NoException THEN r.timelayouts
                                                       ELSE timelayouts
              /\ handle(r.exc, "forecasts")
    /\ UNCHANGED <<creationtime, perioditems, text, feed, tty, sms>>

\* ---------------------------------------------------------- _parseforecasts
RECURSIVE parseforecasts(_, _)
\* lines 273-298
parseforecasts(forecasts, items) ==
    IF forecasts = <<>> THEN [exc |-> NoException, perioditems |-> items]
    ELSE LET wordedforecast == Head(forecasts)
             timelayoutkey  == wordedforecast.timelayout
             forecasttexts  == wordedforecast.texts
         IN  IF timelayoutkey = Absent
             THEN [exc |-> "RuntimeError", perioditems |-> items]
             ELSE IF \E i \in DOMAIN forecasttexts : forecasttexts[i] = "<none>"
             THEN [exc |-> "AttributeError", perioditems |-> items]
             ELSE IF timelayoutkey \notin DOMAIN timelayouts
             THEN [exc |-> "RuntimeError", perioditems |-> items]
             ELSE IF Len(timelayouts[timelayoutkey]) # Len(forecasttexts)
             THEN [exc |-> "RuntimeError", perioditems |-> items]
             ELSE parseforecasts(Tail(forecasts),
                     items \o [i \in DOMAIN forecasttexts |->
                                 [timeinfo     |-> timelayouts[timelayoutkey][i],
                                  forecasttext |-> forecasttexts[i]]])

\* line 310
_parseforecasts ==
    /\ fpc = "forecasts"
    /\ \E forecasts \in Forecasts :
          LET r == parseforecasts(forecasts, perioditems)
          IN  /\ tree' = [tree EXCEPT !.forecasts = forecasts]
              /\ perioditems' = r.perioditems
              /\ handle(r.exc, "asString")
    /\ UNCHANGED <<creationtime, timelayouts, text, feed, tty, sms>>

\* ------------------------------------------------------------------ asString
\* nwsperiod.hoursinfuture, lines 126-128, in minutes: the difference of an
\* aware and a naive datetime is a TypeError
CanSubtract(a, b) == a.aware = b.aware

\* lines 323-332, called with hoursahead = 72 at line 351
asString ==
    /\ fpc = "asString"
    /\ IF err # ""
       THEN /\ text' = [kind |-> "ERROR", periods |-> <<>>]
            /\ fpc' = "returned"
            /\ UNCHANGED exc
       ELSE IF \E i \in DOMAIN perioditems :
                  ~CanSubtract(perioditems[i].timeinfo, creationtime)
       THEN /\ exc' = "TypeError"
            /\ fpc' = "raised"
            /\ UNCHANGED text
       ELSE /\ text' = [kind    |-> "Weather forecast",
                        periods |-> SelectSeq(perioditems,
                                      LAMBDA x : x.timeinfo.dt - creationtime.dt
                                                   < HoursAhead * 60)]
            /\ fpc' = "returned"
            /\ UNCHANGED exc
    /\ UNCHANGED <<tree, err, creationtime, timelayouts, perioditems, feed, tty, sms>>

NextForecast ==
    \/ getnwsforecast_open
    \/ _parseheader
    \/ _parsetimelayouts
    \/ _parseforecasts
    \/ asString

SpecForecast == Init /\ [][NextForecast]_vars

\* ======================================================================
\* The claims about the weather report
\* ======================================================================
\* the document was XML and parse has looked at its header
HeaderSeen == tree.kind = "xml" /\ fpc \notin {"idle", "header"}

\* line 200 was executed: parseisotime was called with the text of the
\* creation-date item
CreationParsed ==
    /\ HeaderSeen
    /\ tree.header.root = "dwml" /\ tree.header.product
    /\ tree.header.creation.item = "text"

\* a timestamp of the ISO 8601 subset with its time zone part
IsZulu(op) == op = <<"Z">> \/ op = <<"z">>

IsOffset(op) ==
    /\ Len(op) = 6
    /\ op[1] \in {"+", "-"} /\ op[4] = ":"
    /\ \A i \in {2, 3, 5, 6} : IsDigit(op[i])

ZonedTimestamp(s) ==
    /\ s.datetimepart # <<>>
    /\ IsZulu(s.offsetpart) \/ IsOffset(s.offsetpart)

\* the local time of a timestamp and the offset of its zone, in minutes
LocalMinutes(s) ==
    s.datetimepart[1] * 1440 + s.datetimepart[2] * 60 + s.datetimepart[3]

SignedOffset(op) ==
    IF IsZulu(op) THEN 0
    ELSE LET hhmm == (DigitVal(op[2]) * 10 + DigitVal(op[3])) * 60
                       + DigitVal(op[5]) * 10 + DigitVal(op[6])
         IN  IF op[1] = "+" THEN hhmm ELSE 0 - hhmm

InUTC(s) ==
    [exc |-> NoException, dt |-> LocalMinutes(s) - SignedOffset(s.offsetpart),
     aware |-> TRUE]

\* C26, as stated: for a timestamp with Z or an offset parseisotime
\* returns an aware datetime, the local time minus the signed offset.
C26_ZonedTimestampToUTC ==
    (CreationParsed /\ ZonedTimestamp(tree.header.creation.text))
    => creationtime = InUTC(tree.header.creation.text)

\* the same for the timestamps that have an offset and not Z
C26_OffsetTimestampToUTC ==
    (CreationParsed /\ ZonedTimestamp(tree.header.creation.text)
        /\ ~IsZulu(tree.header.creation.text.offsetpart))
    => creationtime = InUTC(tree.header.creation.text)

\* C25, as stated: whatever the XML document holds, no exception leaves
\* getnwsforecast; when parse cannot interpret the document it records a
\* description in err and the text returned begins with the error.
C25_ParseNeverRaises ==
    tree.kind = "xml"
    => /\ exc = NoException
       /\ fpc # "raised"
       /\ (fpc = "returned" /\ err # "") => text.kind = "ERROR"

\* ======================================================================
\* More claims about the SMS feed
\* ======================================================================
\* the step in which a "getnext" request is answered and the reply handled
ReplyStep == pc = "getnext" /\ Len(cyclelog') = Len(cyclelog) + 1
                /\ cyclelog'[Len(cyclelog')].ok

\* the serials of the normal messages of the reply handled in this step
Arrived == {int(fetched'[i]) : i \in Len(fetched) + 1 .. Len(fetched')}

HasNew == \E n \in Arrived : n > lastserial

\* C29, as stated: after a reply with a new message (a serial above the
\* cursor, 0 included) the cursor is the highest serial of the reply and
\* another request follows; the cycle stops fetching only after a reply
\* without a new message; the cursor decreases only by the idle reset.
C29_CursorFollowsReplies ==
    [][/\ (ReplyStep /\ HasNew /\ pc' # "raised")
          => /\ lastserial' = MaxOf(Arrived)
             /\ pc' = "getnext"
       /\ (ReplyStep /\ pc' = "sleep") => ~HasNew
       /\ lastserial' < lastserial
          => (pc = "isfeedidle" /\ lastserial' = -1)]_vars

\* the "getnext" requests of the current poll cycle
Getnexts == {i \in DOMAIN cyclelog : IsCmd(i, "getnext")}

\* C30: every iteration of the fetch loop that is followed by another one
\* has raised lastserial, which no reply can raise above the highest
\* serial there is; so the requests of a cycle are at most one more than
\* the cursor has risen since the first of them, and the loop ends.
C30_FetchLoopTerminates ==
    /\ [](/\ lastserial <= MaxSerial + 1
          /\ \A i \in Getnexts :
                /\ Cardinality({j \in Getnexts : j >= i})
                      <= lastserial - cyclelog[i].before + 1
                /\ (\E j \in Getnexts : j > i)
                      => cyclelog[i].after > cyclelog[i].before)
    /\ [][(ReplyStep /\ pc' = "getnext") => lastserial' > lastserial]_vars

\* a poll cycle has made three requests: two replies with a new message
\* each, then a reply without one ended the loop
C30_Witness ==
    /\ pc = "sleep"
    /\ Cardinality(Getnexts) = 3
    /\ \A i \in Getnexts : cyclelog[i].ok

\* the steps of the poll thread: the loop that calls fetchitems again and
\* again, and fetchitems itself
PollThread ==
    /\ \/ fetchitems_begin
       \/ markitemsdone_get
       \/ \E ok \in BOOLEAN : markitemsdone_send(ok)
       \/ fetchitems_isfeedidle
       \/ fetchitems_ioerror
       \/ fetchitems_getnext
    /\ UNCHANGED <<tty, nws, sms>>

\* the feed with a poll thread that is not held up for ever
SpecLive == Spec /\ WF_vars(PollThread)

\* every item itemdone has put on donequeue so far was reported "printed"
\* to the server with success
AllReported == \A k \in 1 .. Len(doneserials) : k \in acked

\* C28: if poll cycles keep running (the poll thread comes back to its
\* sleep between two cycles again and again) and requests fail only
\* finitely often, every item itemdone has put on donequeue is reported
\* "printed" to the server with success: again and again all the items
\* of donequeue so far have been reported, and a report is never undone.
C28_DoneItemsEventuallyReported ==
    /\ ([]<>(pc = "sleep")) => []<>AllReported
    /\ [][acked \subseteq acked' /\ Len(doneserials') >= Len(doneserials)]_vars

\* an item whose "printed" request has failed once was reported in a
\* later poll cycle
C28_Witness ==
    \E k \in requeued : k \in acked


\* ======================================================================
\* Claims about handlemsg and processmsg (twiliofeed.py, lines 298-345)
\* ======================================================================

\* the replies a "getnext" request can get in the current state
Replies == OddReplies \cup {ProtocolReply(StartOf(GetnextRequest(lastserial + 1)))}

\* handlereply hands the first message of the reply to handlemsg: its tags
\* are readable and it has a numeric serial (lines 277-285)
HandsOver(replyxml) ==
    /\ replyxml # <<>>
    /\ ~replyxml[1].nostring
    /\ replyxml[1].serial # Absent
    /\ IsNumeric(replyxml[1].serial)

\* what a step has put on inqueue
NewlyQueued == SubSeq(inqueue', Len(inqueue) + 1, Len(inqueue'))

NormalItem(serial) == [serial |-> serial, err |-> FALSE, stamp |-> 0]

\* the first message of the reply is queued as a normal item with its serial
\* exactly if its errormsg is "0"; otherwise it is reported as an error, by
\* an item without a serial, which itemdone never puts on donequeue
QueuedByErrormsg(m) ==
    /\ (NewlyQueued # <<>> /\ NewlyQueued[1] = NormalItem(m.serial))
           <=> m.errormsg = "0"
    /\ m.errormsg # "0"
           => /\ NewlyQueued # <<>>
              /\ NewlyQueued[1] = ErrorItem
              /\ NewlyQueued[1].serial = NoSerial

\* C31, as stated: a fetched message is queued as a normal item carrying its
\* serial if and only if its errormsg field is present and equal to "0"; a
\* message whose errormsg is absent or different is reported as an error and
\* produces no item that can later be acknowledged.
C31_QueuedIffErrormsgZero ==
    [][\A replyxml \in Replies :
          (fetchitems_reply(replyxml) /\ HandsOver(replyxml))
          => QueuedByErrormsg(replyxml[1])]_vars

\* C31 for the messages that carry a receive time: these are queued or
\* reported as the claim says
C31_QueuedIffErrormsgZeroWithRcvtime ==
    [][\A replyxml \in Replies :
          (fetchitems_reply(replyxml) /\ HandsOver(replyxml)
           /\ replyxml[1].rcvtime # Absent)
          => QueuedByErrormsg(replyxml[1])]_vars

\* an item without a serial never waits for its "printed" command
C31_NoErrorItemOnDonequeue ==
    \A i \in DOMAIN donequeue : donequeue[i].serial # NoSerial /\ ~donequeue[i].err

\* a message without errormsg has been reported and its error item printed
C31_Witness ==
    /\ \E i \in DOMAIN cyclelog :
          IsCmd(i, "getnext") /\ cyclelog[i].ok /\ cyclelog[i].nerr = 1
          /\ ~cyclelog[i].malformed
    /\ inqueue = <<>>
    /\ printing = NoItem
    /\ donequeue = <<>>
    /\ doneserials = <<>>


\* ======================================================================
\* Claims about the line buffer of the Teletype emulator
\* ======================================================================

\* the characters write has decoded and has dealt with: the last one decoded
\* is still in the writer's hands while the writer stands before line 122
Written == IF wpc = "append" THEN SubSeq(decoded, 1, Len(decoded) - 1) ELSE decoded

\* C32: no character is lost or duplicated by buffering: under any
\* interleaving of write, the flushes of read and the flushes of the timers,
\* the delivered lines, one after the other, followed by the buffer, are the
\* characters other than line terminators that write has decoded, in order.
C32_NothingLostOrDuplicated ==
    /\ Flatten(delivered) \o outline = TextOf(Written)
    /\ wpc = "append" => (decoded # <<>> /\ decoded[Len(decoded)] = wch)
    /\ \A i \in DOMAIN delivered : delivered[i] # <<>>

\* two writes and a read: the first character was delivered by one flush,
\* the second by another, while a read was under way or over
C32_Witness ==
    /\ Len(delivered) = 2
    /\ Flatten(delivered) = <<"A", "1">>
    /\ typed # <<>>
    /\ \E i \in DOMAIN timers : timers[i] = "finished"
    /\ outline = <<>>


\* the n-th character write has put into the line buffer is there or was
\* delivered; it was delivered
Buffered(n) == Len(Flatten(delivered)) + Len(outline) >= n

Delivered(n) == Len(Flatten(delivered)) >= n

\* C33, as stated: every character that write puts into the line buffer is
\* eventually delivered, even if no line terminator and no further write
\* ever follows.
C33_EventuallyDelivered ==
    \A n \in 1 .. MaxWrites : Buffered(n) ~> Delivered(n)

\* C33, amended: every character that write puts into the line buffer is
\* eventually delivered, even if no line terminator and no further write
\* ever follows, unless Control-C ends the process first.
C33_EventuallyDeliveredUnlessAborted ==
    \A n \in 1 .. MaxWrites : Buffered(n) ~> (Delivered(n) \/ ~alive)

\* one write, without a line terminator, and nothing typed: the timer the
\* write has started has delivered the character
C33_Witness ==
    /\ alive
    /\ nwrites = 1 /\ wpc = "idle"
    /\ decoded = <<"A">>
    /\ typed = <<>>
    /\ timers = <<"finished">>
    /\ delivered = <<<<"A">>>>
    /\ outline = <<>>


\* ======================================================================
\* Claims about the two shift states
\* ======================================================================

\* the step in which write returns; the step of line 123; a step of the
\* thread that is inside read; the step of line 166
WriteReturns == wpc = "timer" /\ wpc' = "idle"

WriteSyncs == wpc = "loop" /\ wpc' = "timer"

ReadSteps == rpc' # rpc \/ rtext' # rtext \/ baudotread' # baudotread

ReadSetsShift == rpc = "setshift" /\ rpc' = "loop" /\ inshift' = rloc.shift

MaxParts == 2       \* pieces a message body is put together from

\* a string is the sequence of its characters; the pieces of a body: the
\* four kinds of escape the rules are written for, a letter, and the two
\* characters of an escape on their own
Pieces ==
    {   <<"&", "m", "d", "a", "s", "h", ";">>,
        <<"&", "a", "m", "p", ";">>,
        <<"&", "l", "t", ";">>,
        <<"&", "#", "3", "8", ";">>,
        <<"x">>,
        <<"&">>,
        <<";">>
    }

RECURSIVE Bodies(_)
Bodies(n) ==
    IF n = 0 THEN {<<>>}
    ELSE Bodies(n - 1) \cup {b \o piece : b \in Bodies(n - 1), piece \in Pieces}

\* \w of a regular expression, for the characters in use
WordChars == {"a", "d", "h", "l", "m", "p", "s", "t", "x", "3", "8"}

\* a compiled pattern: a literal text, then \w+ or nothing, then a literal
Pattern(prefix, word, suffix) == [prefix |-> prefix, word |-> word, suffix |-> suffix]

HTMLREWRITES ==
    <<  [pattern |-> Pattern(<<"&", "m", "d", "a", "s", "h", ";">>, FALSE, <<>>),
         rep |-> <<"-">>],
        [pattern |-> Pattern(<<"&", "a", "m", "p", ";">>, FALSE, <<>>),
         rep |-> <<"&">>],
        [pattern |-> Pattern(<<"&">>, TRUE, <<";">>), rep |-> <<"?">>],
        [pattern |-> Pattern(<<"&", "#">>, TRUE, <<";">>), rep |-> <<"?">>]
    >>

\* does the literal lit stand in str at position i
LiteralAt(str, i, lit) ==
    /\ i + Len(lit) - 1 <= Len(str)
    /\ SubSeq(str, i, i + Len(lit) - 1) = lit

\* the longest run of \w characters of str from position i on
RECURSIVE wordrun(_, _)
wordrun(str, i) ==
    IF i <= Len(str) /\ str[i] \in WordChars THEN 1 + wordrun(str, i + 1) ELSE 0

\* the length of the match of the pattern at position i of str, 0 for no
\* match; \w+ is greedy, and as the literal after it begins with a character
\* that is not \w, only the longest run can be followed by it
matchlen(pattern, str, i) ==
    IF ~LiteralAt(str, i, pattern.prefix)
    THEN 0
    ELSE LET j == i + Len(pattern.prefix)
             k == IF pattern.word THEN wordrun(str, j) ELSE 0
         IN  IF (pattern.word => k >= 1) /\ LiteralAt(str, j + k, pattern.suffix)
             THEN Len(pattern.prefix) + k + Len(pattern.suffix)
             ELSE 0

\* pattern.sub(rep, str): every match, from the left, none overlapping
\* another, is replaced by rep
RECURSIVE subfrom(_, _, _, _)
subfrom(pattern, rep, str, i) ==
    IF i > Len(str)
    THEN <<>>
    ELSE LET m == matchlen(pattern, str, i)
         IN  IF m > 0
             THEN rep \o subfrom(pattern, rep, str, i + m)
             ELSE <<str[i]>> \o subfrom(pattern, rep, str, i + 1)

sub(pattern, rep, str) == subfrom(pattern, rep, str, 1)

\* cleanhtml(s), lines 354-357: the return statement is inside the body of
\* the for loop, so the function returns in the first pass of the loop
cleanhtml(str) ==
    LET rule == HTMLREWRITES[1]
        s1   == sub(rule.pattern, rule.rep, str)
    IN  s1

\* processmsg, lines 323-326: the body of the message is picked
processmsg_msgbody(body) ==
    /\ cpc = "idle"
    /\ msgbody' = body
    /\ cpc' = "cleanhtml"
    /\ UNCHANGED <<cleaned, feed, tty, nws>>

\* processmsg, line 327
processmsg_cleanhtml ==
    /\ cpc = "cleanhtml"
    /\ cleaned' = cleanhtml(msgbody)
    /\ cpc' = "idle"
    /\ UNCHANGED <<msgbody, feed, tty, nws>>

NextBody ==
    \/ \E body \in Bodies(MaxParts) : processmsg_msgbody(body)
    \/ processmsg_cleanhtml

SpecBody == Init /\ [][NextBody]_vars

\* ======================================================================
\* Claims about cleanhtml
\* ======================================================================

\* all the rules applied to a string, one after the other
RECURSIVE RewriteAll(_, _)
RewriteAll(rules, str) ==
    IF rules = <<>> THEN str
    ELSE RewriteAll(Tail(rules), sub(Head(rules).pattern, Head(rules).rep, str))

\* the string holds a match of the rule
Holds(rule, str) == \E i \in DOMAIN str : matchlen(rule.pattern, str, i) > 0

\* C35, as stated: cleanhtml applies all rewrite rules of HTMLREWRITES in
\* sequence: in its result every '&mdash;' is replaced by '-', every '&amp;'
\* by '&', and every other named or numeric HTML escape by '?'.
C35_AllRulesApplied ==
    cpc = "idle"
    => /\ cleaned = RewriteAll(HTMLREWRITES, msgbody)
       /\ \A k \in DOMAIN HTMLREWRITES : ~Holds(HTMLREWRITES[k], cleaned)

\* what cleanhtml does: the first rule alone is applied
C35_FirstRuleOnly ==
    cpc = "idle"
    => /\ cleaned = sub(HTMLREWRITES[1].pattern, HTMLREWRITES[1].rep, msgbody)
       /\ ~Holds(HTMLREWRITES[1], cleaned)
       /\ \A k \in 2 .. Len(HTMLREWRITES) :
             ~Holds(HTMLREWRITES[1], msgbody)
             => (Holds(HTMLREWRITES[k], cleaned) <=> Holds(HTMLREWRITES[k], msgbody))

\* '&mdash;&amp;' was cleaned: the result is '-&amp;'
C35_Witness ==
    /\ cpc = "idle"
    /\ msgbody = <<"&", "m", "d", "a", "s", "h", ";", "&", "a", "m", "p", ";">>
    /\ cleaned = <<"-", "&", "a", "m", "p", ";">>

====
